---- MODULE Spec2Model ----
(***************************************************************************)
(* A model of the cqlite Python sources: the VInt decoder and the magic    *)
(* number analysis of scripts/validation/validate_cassandra_compatibility, *)
(* the CQL value conversion of cqlite/types.py, the query validation of    *)
(* cqlite/reader.py and cqlite/utils.py, and the SELECT pipeline of        *)
(* tests/e2e/cross_language_suite.py.                                      *)
(*                                                                         *)
(* Python integers are unbounded.  Where a value can exceed 31 bits it is  *)
(* kept as a sequence of base-256 digits (big-endian); a signed result in  *)
(* the 64-bit range is kept as its 8-byte two's complement image.          *)
(* Python strings are TLA+ strings, read with Len, SubSeq and \o.           *)
(***************************************************************************)
EXTENDS Integers, Sequences, FiniteSets, TLC

VARIABLES
    vintPc,       \* "value" | "bytes" | "done" | "idle": position of the VInt harness
    vintValue,    \* the signed 64-bit integer handed to the encoder, or NoValue
    vintBytes,    \* the byte string handed to decode_vint
    vintResult,   \* the outcome of decode_vint, or NoValue
    magicPc,      \* "data" | "done": position of the magic-number harness
    magicData,    \* the bytes handed to analyze_magic_number
    magicResult,  \* the dictionary analyze_magic_number returned, or NoValue
    convPc,       \* "input" | "done": position of the value-conversion harness
    convValue,    \* the raw value handed to convert_cql_value
    convType,     \* the CQL type string handed to convert_cql_value
    convResult,   \* what convert_cql_value returned or raised, or NoValue
    convAgain,    \* what converting convResult once more gave, or NoValue
    validatePc,   \* "input" | "done": position of the validate_query harness
    validateSql,  \* the statement handed to validate_query
    validateResult, \* the dictionary validate_query returned, or NoValue
    parsePc,      \* "input" | "done": position of the parsing harness
    parseParts,   \* the tokens of the statement: columns, table, WHERE tokens
    parseSql,     \* one way of writing the statement (keyword case, whitespace)
    parseResult,  \* what the parsers made of parseSql and of the canonical form
    queryPc,      \* "input" | "done": position of the query harness
    queryInput,   \* the query asked: columns and WHERE conditions
    querySql,     \* the statement handed to SSTableReader.query
    queryResult,  \* the rows query returned or the error it raised, or NoValue
    iterInput,    \* the file, the chunk size and the LIMIT / OFFSET of a QueryIterator run
    iterQuery,    \* the ParsedQuery the iterator runs
    iter,         \* the QueryIterator: state, position, current_offset, chunk, finished
    chunksInput,  \* the rows AsyncQueryIterator gives, chunk_size and self.chunk_size
    chunks,       \* query_streaming and query_chunks: position, chunk, what was yielded
    reader,       \* an SSTableReader: _schema_cache, _stats_cache, calls made to the core
    readerReads,  \* the reads of reader.schema and reader.stats so far, with their values
    batch,        \* process_multiple_sstables: its arguments, position and tasks
    pathInput,    \* the path handed to validate_sstable_path and the files that exist
    pathResult,   \* the dictionary validate_sstable_path returned, or NoValue
    scanInput,    \* the files of the test data directory, or that it does not exist
    scan,         \* run_compatibility_tests: position in the files and its results
    typeInput,    \* the CQL type string whose parameters are extracted
    typeResult,   \* what _split_type_params and the _extract functions returned, or NoValue
    countInput,   \* the rows of the table and the SELECT statement counted
    countResult,  \* what query and query_count (or count) returned, or NoValue
    columnsInput, \* the arguments of query_columns and the rows of the table
    columnsResult,\* the statement built and the rows returned, or NoValue
    patternsInput, \* the bytes and max_samples handed to find_vint_patterns
    patterns      \* the loop of find_vint_patterns: position, samples, or NoValue

vintVars == <<vintPc, vintValue, vintBytes, vintResult>>
magicVars == <<magicPc, magicData, magicResult>>
convVars == <<convPc, convValue, convType, convResult, convAgain>>
validateVars == <<validatePc, validateSql, validateResult>>
parseVars == <<parsePc, parseParts, parseSql, parseResult>>
queryVars == <<queryPc, queryInput, querySql, queryResult>>
iterVars == <<iterInput, iterQuery, iter>>
chunksVars == <<chunksInput, chunks>>
readerVars == <<reader, readerReads>>
batchVars == <<batch>>
pathVars == <<pathInput, pathResult>>
scanVars == <<scanInput, scan>>
typesVars == <<typeInput, typeResult>>
countVars == <<countInput, countResult>>
columnsVars == <<columnsInput, columnsResult>>
patternsVars == <<patternsInput, patterns>>
laterVars == <<iterVars, chunksVars, readerVars, batchVars, pathVars, scanVars, typesVars, countVars, columnsVars, patternsVars>>
vars == <<vintVars, magicVars, convVars, validateVars, parseVars, queryVars, laterVars>>

NoValue == [kind |-> "none"]

(***************************************************************************)
(* Each part of the program is exercised on its own: the variables of the  *)
(* other parts stay idle.                                                  *)
(***************************************************************************)
IdleVInt ==
    /\ vintPc = "idle"
    /\ vintValue = NoValue
    /\ vintBytes = <<>>
    /\ vintResult = NoValue

IdleMagic ==
    /\ magicPc = "idle"
    /\ magicData = <<>>
    /\ magicResult = NoValue

IdleConv ==
    /\ convPc = "idle"
    /\ convValue = NoValue
    /\ convType = ""
    /\ convResult = NoValue
    /\ convAgain = NoValue

IdleValidate ==
    /\ validatePc = "idle"
    /\ validateSql = ""
    /\ validateResult = NoValue

IdleParse ==
    /\ parsePc = "idle"
    /\ parseParts = NoValue
    /\ parseSql = ""
    /\ parseResult = NoValue

IdleQuery ==
    /\ queryPc = "idle"
    /\ queryInput = NoValue
    /\ querySql = ""
    /\ queryResult = NoValue

IdleIter ==
    /\ iterInput = NoValue
    /\ iterQuery = NoValue
    /\ iter = NoValue

IdleChunks ==
    /\ chunksInput = NoValue
    /\ chunks = NoValue

IdleReader ==
    /\ reader = NoValue
    /\ readerReads = <<>>

IdleBatch == batch = NoValue

IdlePath ==
    /\ pathInput = NoValue
    /\ pathResult = NoValue

IdleScan ==
    /\ scanInput = NoValue
    /\ scan = NoValue

IdleTypes ==
    /\ typeInput = ""
    /\ typeResult = NoValue

IdleCount ==
    /\ countInput = NoValue
    /\ countResult = NoValue

IdleColumns ==
    /\ columnsInput = NoValue
    /\ columnsResult = NoValue

IdlePatterns ==
    /\ patternsInput = NoValue
    /\ patterns = NoValue

\* the parts added after the query pipeline, all idle
IdleLater ==
    /\ IdleIter /\ IdleChunks /\ IdleReader /\ IdleBatch /\ IdlePath
    /\ IdleScan /\ IdleTypes /\ IdleCount /\ IdleColumns /\ IdlePatterns

notVIntVars == <<magicVars, convVars, validateVars, parseVars, queryVars, laterVars>>
notMagicVars == <<vintVars, convVars, validateVars, parseVars, queryVars, laterVars>>
notConvVars == <<vintVars, magicVars, validateVars, parseVars, queryVars, laterVars>>
notValidateVars == <<vintVars, magicVars, convVars, parseVars, queryVars, laterVars>>
notParseVars == <<vintVars, magicVars, convVars, validateVars, queryVars, laterVars>>
notQueryVars == <<vintVars, magicVars, convVars, validateVars, parseVars, laterVars>>
earlierVars == <<vintVars, magicVars, convVars, validateVars, parseVars, queryVars>>
IdleEarlier ==
    IdleVInt /\ IdleMagic /\ IdleConv /\ IdleValidate /\ IdleParse /\ IdleQuery
notIterVars == <<earlierVars, chunksVars, readerVars, batchVars, pathVars, scanVars, typesVars, countVars, columnsVars, patternsVars>>
notChunksVars == <<earlierVars, iterVars, readerVars, batchVars, pathVars, scanVars, typesVars, countVars, columnsVars, patternsVars>>
notReaderVars == <<earlierVars, iterVars, chunksVars, batchVars, pathVars, scanVars, typesVars, countVars, columnsVars, patternsVars>>
notBatchVars == <<earlierVars, iterVars, chunksVars, readerVars, pathVars, scanVars, typesVars, countVars, columnsVars, patternsVars>>
notPathVars == <<earlierVars, iterVars, chunksVars, readerVars, batchVars, scanVars, typesVars, countVars, columnsVars, patternsVars>>
notScanVars == <<earlierVars, iterVars, chunksVars, readerVars, batchVars, pathVars, typesVars, countVars, columnsVars, patternsVars>>
notTypesVars == <<earlierVars, iterVars, chunksVars, readerVars, batchVars, pathVars, scanVars, countVars, columnsVars, patternsVars>>
notCountVars == <<earlierVars, iterVars, chunksVars, readerVars, batchVars, pathVars, scanVars, typesVars, columnsVars, patternsVars>>
notColumnsVars == <<earlierVars, iterVars, chunksVars, readerVars, batchVars, pathVars, scanVars, typesVars, countVars, patternsVars>>
notPatternsVars == <<earlierVars, iterVars, chunksVars, readerVars, batchVars, pathVars, scanVars, typesVars, countVars, columnsVars>>

(***************************************************************************)
(* Bounds of the model.                                                    *)
(***************************************************************************)
\* longest raw byte string handed to decode_vint (9 is the longest VInt)
MaxRawLen == 10
\* longest byte string handed to analyze_magic_number (4 bytes are read)
MaxMagicLen == 5
\* longest list or tuple handed to convert_cql_value
MaxCollectionLen == 2
\* most rows in the file a QueryIterator reads
MaxFileRows == 5
\* largest chunk size of a QueryIterator
MaxChunkSize == 3
\* most rows in the result query_chunks cuts into chunks
MaxResultRows == 7
\* most reads of reader.schema and reader.stats on one reader
MaxReads == 5
\* most SSTable paths handed to process_multiple_sstables
MaxPaths == 4
\* most files in the directory run_compatibility_tests goes through
MaxFiles == 2

(***************************************************************************)
(* Byte and digit helpers.                                                 *)
(***************************************************************************)
RECURSIVE Pow2(_)
Pow2(n) == IF n = 0 THEN 1 ELSE 2 * Pow2(n - 1)

RECURSIVE Repeat(_, _)
Repeat(x, n) == IF n = 0 THEN <<>> ELSE <<x>> \o Repeat(x, n - 1)

\* the last n elements of s
LastN(s, n) == SubSeq(s, Len(s) - n + 1, Len(s))

\* every sequence over S of length at most n
RECURSIVE SeqsUpTo(_, _)
SeqsUpTo(S, n) ==
    IF n = 0 THEN {<<>>}
    ELSE LET shorter == SeqsUpTo(S, n - 1)
         IN  shorter \cup {Append(s, x) : s \in {t \in shorter : Len(t) = n - 1}, x \in S}

\* every sequence over S of length exactly n
SeqsOfLen(S, n) == {s \in SeqsUpTo(S, n) : Len(s) = n}

(***************************************************************************)
(* Python str operations, on TLA+ strings.  Positions are Python's         *)
(* (0-based) where a position is a result; -1 is "not found".              *)
(***************************************************************************)
CharAt(s, i) == SubSeq(s, i, i)            \* the i-th character, 1-based

\* the characters str.strip() and str.split() treat as whitespace
Whitespace == {" ", "\t", "\n", "\r", "\f"}

LowerLetters == "abcdefghijklmnopqrstuvwxyz"
UpperLetters == "ABCDEFGHIJKLMNOPQRSTUVWXYZ"

\* the 1-based position of character c in s, 0 when absent
RECURSIVE IndexIn(_, _, _)
IndexIn(c, s, i) ==
    IF i > Len(s) THEN 0
    ELSE IF CharAt(s, i) = c THEN i ELSE IndexIn(c, s, i + 1)

UpperChar(c) ==
    LET i == IndexIn(c, LowerLetters, 1)
    IN  IF i = 0 THEN c ELSE CharAt(UpperLetters, i)

LowerChar(c) ==
    LET i == IndexIn(c, UpperLetters, 1)
    IN  IF i = 0 THEN c ELSE CharAt(LowerLetters, i)

\* str.upper()
RECURSIVE Upper(_)
Upper(s) == IF s = "" THEN "" ELSE UpperChar(Head(s)) \o Upper(Tail(s))

\* str.lower()
RECURSIVE Lower(_)
Lower(s) == IF s = "" THEN "" ELSE LowerChar(Head(s)) \o Lower(Tail(s))

\* str.lstrip(chars), str.rstrip(chars), str.strip(chars)
RECURSIVE LStripChars(_, _)
LStripChars(s, chars) ==
    IF s # "" /\ Head(s) \in chars THEN LStripChars(Tail(s), chars) ELSE s

RECURSIVE RStripChars(_, _)
RStripChars(s, chars) ==
    IF s # "" /\ CharAt(s, Len(s)) \in chars
    THEN RStripChars(SubSeq(s, 1, Len(s) - 1), chars)
    ELSE s

StripChars(s, chars) == RStripChars(LStripChars(s, chars), chars)

\* str.strip()
Strip(s) == StripChars(s, Whitespace)

\* str.startswith(prefix)
StartsWith(s, prefix) ==
    Len(prefix) <= Len(s) /\ SubSeq(s, 1, Len(prefix)) = prefix

\* str.find(sub) from 0-based position start
RECURSIVE FindFrom(_, _, _)
FindFrom(s, sub, start) ==
    IF start + Len(sub) > Len(s) THEN -1
    ELSE IF SubSeq(s, start + 1, start + Len(sub)) = sub THEN start
         ELSE FindFrom(s, sub, start + 1)

\* str.find(sub)
Find(s, sub) == FindFrom(s, sub, 0)

\* str.rfind(sub)
RECURSIVE RFindFrom(_, _, _)
RFindFrom(s, sub, start) ==
    IF start < 0 THEN -1
    ELSE IF SubSeq(s, start + 1, start + Len(sub)) = sub THEN start
         ELSE RFindFrom(s, sub, start - 1)

RFind(s, sub) == RFindFrom(s, sub, Len(s) - Len(sub))

\* sub in s
Contains(s, sub) == Find(s, sub) # -1

\* s[start:end] for 0 <= start and 0 <= end (Python clips to the string)
Slice(s, start, end) ==
    LET e == IF end > Len(s) THEN Len(s) ELSE end
    IN  IF start >= e THEN "" ELSE SubSeq(s, start + 1, e)

\* str.split(sep): a sequence of strings
RECURSIVE SplitOn(_, _)
SplitOn(s, sep) ==
    LET at == Find(s, sep)
    IN  IF at = -1 THEN <<s>>
        ELSE <<Slice(s, 0, at)>> \o SplitOn(Slice(s, at + Len(sep), Len(s)), sep)

\* str.split(sep, 1)
SplitOnce(s, sep) ==
    LET at == Find(s, sep)
    IN  IF at = -1 THEN <<s>>
        ELSE <<Slice(s, 0, at), Slice(s, at + Len(sep), Len(s))>>

\* str.split(): the maximal runs of non-whitespace characters
RECURSIVE SplitWhitespace(_, _)
SplitWhitespace(s, current) ==
    IF s = ""
    THEN IF current = "" THEN <<>> ELSE <<current>>
    ELSE IF Head(s) \in Whitespace
         THEN (IF current = "" THEN <<>> ELSE <<current>>)
              \o SplitWhitespace(Tail(s), "")
         ELSE SplitWhitespace(Tail(s), current \o Head(s))

Split(s) == SplitWhitespace(s, "")

\* sep.join(parts)
RECURSIVE Join(_, _)
Join(sep, parts) ==
    IF parts = <<>> THEN ""
    ELSE IF Len(parts) = 1 THEN parts[1]
         ELSE parts[1] \o sep \o Join(sep, Tail(parts))


(***************************************************************************)
(* decode_vint (validate_cassandra_compatibility.py, lines 95-131).        *)
(***************************************************************************)

\* lines 104-107: while test_byte & 0x80 and extra_bytes < 8:
\*                    extra_bytes += 1; test_byte <<= 1
\* test_byte is a Python int: the shift does not drop the high bits.
RECURSIVE CountLeadingOnes(_, _)
CountLeadingOnes(test_byte, extra_bytes) ==
    IF (test_byte \div 128) % 2 = 1 /\ extra_bytes < 8
    THEN CountLeadingOnes(test_byte * 2, extra_bytes + 1)
    ELSE extra_bytes

\* lines 100-107
ExtraBytes(first_byte) == CountLeadingOnes(first_byte, 0)

\* line 119 (an off-by-one in the number of value bits)
FirstByteValueBitsOffByOne(extra_bytes) ==
    IF extra_bytes < 7 THEN 6 - extra_bytes ELSE 0

\* line 119: first_byte_value_bits = 7 - extra_bytes if extra_bytes < 7 else 0
FirstByteValueBits(extra_bytes) ==
    IF extra_bytes < 7 THEN 7 - extra_bytes ELSE 0

\* lines 114-124: the part of the value taken from the first byte
FirstByteValue(first_byte, extra_bytes) ==
    IF extra_bytes = 0
    THEN first_byte % 128                                   \* first_byte & 0x7F
    ELSE IF FirstByteValueBits(extra_bytes) > 0
         THEN first_byte % Pow2(FirstByteValueBits(extra_bytes))   \* & mask
         ELSE 0

\* lines 127-128: for byte in vint_bytes[1:]: value = (value << 8) | byte
\* value is kept as its base-256 digits, so the step appends one digit.
RECURSIVE ReadRemaining(_, _)
ReadRemaining(value, rest) ==
    IF rest = <<>> THEN value
    ELSE ReadRemaining(Append(value, Head(rest)), Tail(rest))

\* value >> 1 on base-256 digits, most significant digit first
RECURSIVE ShiftRight1(_, _)
ShiftRight1(digits, carry) ==
    IF digits = <<>> THEN <<>>
    ELSE <<(carry * 256 + Head(digits)) \div 2>>
         \o ShiftRight1(Tail(digits), Head(digits) % 2)

\* a digit string of at most 9 digits below 2^64, as exactly 8 digits
To8(digits) ==
    IF Len(digits) >= 8 THEN LastN(digits, 8)
    ELSE Repeat(0, 8 - Len(digits)) \o digits

\* x ^ -1 on the 8-byte two's complement image
Complement(bytes) == [i \in 1..Len(bytes) |-> 255 - bytes[i]]

\* line 131 (the sign test dropped)
ZigZagDecodeNoSign(value) == To8(ShiftRight1(value, 0))

\* line 131: (value >> 1) ^ (-1 if value & 1 else 0)
ZigZagDecode(value) ==
    LET half == To8(ShiftRight1(value, 0))
    IN  IF value[Len(value)] % 2 = 1 THEN Complement(half) ELSE half

\* lines 109-112 (the length check reduced to "too short")
LengthMismatchOnlyShort(len, total_length) == len < total_length

\* line 111: if len(vint_bytes) != total_length: raise ValueError
LengthMismatch(len, total_length) == len # total_length

\* lines 95-131.  The outcome is a raised ValueError or the returned int.
decode_vint(vint_bytes) ==
    IF vint_bytes = <<>>
    THEN [kind |-> "error", error |-> "Empty VInt bytes"]
    ELSE LET first_byte   == vint_bytes[1]
             extra_bytes  == ExtraBytes(first_byte)
             total_length == extra_bytes + 1
         IN  IF LengthMismatch(Len(vint_bytes), total_length)
             THEN [kind |-> "error", error |-> "VInt length mismatch"]
             ELSE [kind  |-> "value",
                   value |-> ZigZagDecode(
                       ReadRemaining(<<FirstByteValue(first_byte, extra_bytes)>>,
                                     Tail(vint_bytes)))]

(***************************************************************************)
(* The VInt encoder.  The Python sources hold no encoder; this is the      *)
(* encoder the specification describes: ZigZag magnitude, a prefix of      *)
(* leading 1-bits giving the number of extra bytes, big-endian payload,    *)
(* in the shortest form that holds the magnitude.                          *)
(***************************************************************************)

\* value << 1 on 8 digits, the bit shifted out of the top dropped
RECURSIVE ShiftLeft1(_)
ShiftLeft1(digits) ==
    IF digits = <<>> THEN <<>>
    ELSE LET low == IF Len(digits) > 1 THEN digits[2] \div 128 ELSE 0
         IN  <<((Head(digits) * 2) % 256) + low>> \o ShiftLeft1(Tail(digits))

\* (v << 1) ^ (v >> 63) on the 8-byte two's complement image of v
ZigZagEncode(v) ==
    IF v[1] >= 128 THEN Complement(ShiftLeft1(v)) ELSE ShiftLeft1(v)

\* number of significant bits of one byte
RECURSIVE BitLen(_)
BitLen(b) == IF b = 0 THEN 0 ELSE 1 + BitLen(b \div 2)

\* number of significant bits of a digit string
RECURSIVE DigitsBitLen(_)
DigitsBitLen(digits) ==
    IF digits = <<>> THEN 0
    ELSE IF Head(digits) = 0 THEN DigitsBitLen(Tail(digits))
         ELSE 8 * (Len(digits) - 1) + BitLen(Head(digits))

\* value bits a VInt with e extra bytes holds
VIntCapacity(e) == IF e = 8 THEN 64 ELSE IF e = 7 THEN 56 ELSE 7 * (e + 1)

\* the fewest extra bytes that hold the magnitude
EncodedExtraBytes(magnitude) ==
    CHOOSE e \in 0..8 :
        /\ DigitsBitLen(magnitude) <= VIntCapacity(e)
        /\ \A f \in 0..8 : DigitsBitLen(magnitude) <= VIntCapacity(f) => e <= f

encode_vint(v) ==
    LET magnitude == ZigZagEncode(v)
        e         == EncodedExtraBytes(magnitude)
        prefix    == 256 - Pow2(8 - e)            \* e leading 1-bits
        high      == IF e < 7 THEN magnitude[8 - e] ELSE 0
    IN  <<prefix + high>> \o LastN(magnitude, e)

(***************************************************************************)
(* Inputs of the VInt harness.                                             *)
(***************************************************************************)

\* a string of 64 bits (most significant first) as 8 bytes
RECURSIVE BitsValue(_)
BitsValue(bits) ==
    IF bits = <<>> THEN 0 ELSE 2 * BitsValue(SubSeq(bits, 1, Len(bits) - 1)) + bits[Len(bits)]

BitsToBytes(bits) == [i \in 1..8 |-> BitsValue(SubSeq(bits, 8 * i - 7, 8 * i))]

\* 2^k - 1, 2^k, -2^k and -2^k - 1 for every k: the values on both sides of
\* every change of encoded length, with 0, -1, the largest and the smallest
BoundarySamples ==
    LET ones(k)  == Repeat(0, 64 - k) \o Repeat(1, k)                  \* 2^k - 1
        onebit(k) == Repeat(0, 63 - k) \o <<1>> \o Repeat(0, k)        \* 2^k
    IN  {BitsToBytes(ones(k)) : k \in 0..63}
        \cup {Complement(BitsToBytes(ones(k))) : k \in 0..63}
        \cup {BitsToBytes(onebit(k)) : k \in 0..62}
        \cup {Complement(BitsToBytes(onebit(k))) : k \in 0..62}

SampleBytes == {0, 129, 255}

\* signed 64-bit integers handed to the encoder
Int64Samples == BoundarySamples \cup SeqsOfLen(SampleBytes, 8)

\* one first byte (at least) for each number of leading 1-bits
FirstBytes == {0, 1, 127, 128, 191, 193, 226, 245, 249, 253, 252, 254, 255}

DistinctBytes == <<1, 35, 69, 103, 137, 171, 205, 239, 16, 50>>

TrailingBytes ==
    SeqsUpTo({0, 255}, MaxRawLen - 1)
    \cup {SubSeq(DistinctBytes, 1, n) : n \in 1..Len(DistinctBytes)}

\* byte strings handed to decode_vint
RawInputs ==
    {<<>>} \cup {<<fb>> \o t : fb \in FirstBytes, t \in TrailingBytes}

(***************************************************************************)
(* The VInt harness: a value is encoded and the bytes decoded, or raw      *)
(* bytes are decoded.                                                      *)
(***************************************************************************)
InitVInt ==
    /\ \/ /\ vintPc = "value"
          /\ vintValue \in {[kind |-> "value", value |-> v] : v \in Int64Samples}
          /\ vintBytes = <<>>
       \/ /\ vintPc = "bytes"
          /\ vintValue = NoValue
          /\ vintBytes \in RawInputs
    /\ vintResult = NoValue
    /\ IdleMagic /\ IdleConv /\ IdleValidate /\ IdleParse /\ IdleQuery /\ IdleLater

EncodeVInt ==
    /\ vintPc = "value"
    /\ vintBytes' = encode_vint(vintValue.value)
    /\ vintPc' = "bytes"
    /\ UNCHANGED <<vintValue, vintResult, notVIntVars>>

DecodeVInt ==
    /\ vintPc = "bytes"
    /\ vintResult' = decode_vint(vintBytes)
    /\ vintPc' = "done"
    /\ UNCHANGED <<vintValue, vintBytes, notVIntVars>>

NextVInt == EncodeVInt \/ DecodeVInt

SpecVInt == InitVInt /\ [][NextVInt]_vars

(***************************************************************************)
(* Properties of the VInt codec.                                           *)
(***************************************************************************)

\* C1: VInt round-trip.  Decoding the encoding of a signed 64-bit integer v
\* returns v, for every v: 0, -1, the largest and the smallest 64-bit value
\* and the magnitudes that need the 9-byte form included.
VIntRoundTrip ==
    (vintPc = "done" /\ vintValue # NoValue)
        => vintResult = vintValue

\* the smallest 64-bit integer went through the 9-byte form and came back
VIntRoundTripWitness ==
    /\ vintPc = "done"
    /\ vintValue = [kind |-> "value", value |-> <<128, 0, 0, 0, 0, 0, 0, 0>>]
    /\ Len(vintBytes) = 9
    /\ vintBytes[1] = 255
    /\ vintResult = vintValue

\* the number of leading 1-bits of a byte, read off its magnitude
LeadingOneBits(b) ==
    CASE b < 128 -> 0
      [] b < 192 -> 1
      [] b < 224 -> 2
      [] b < 240 -> 3
      [] b < 248 -> 4
      [] b < 252 -> 5
      [] b < 254 -> 6
      [] b < 255 -> 7
      [] OTHER   -> 8

\* C2: decode_vint fails on an empty byte sequence and on every byte
\* sequence whose length differs from (leading 1-bits of the first byte) + 1,
\* shorter or longer, and returns a value for every other byte sequence.
VIntLengthChecked ==
    vintPc = "done"
        => ((vintResult.kind = "error")
              <=> (\/ vintBytes = <<>>
                   \/ Len(vintBytes) # LeadingOneBits(vintBytes[1]) + 1))

\* a byte string longer than its first byte declares was refused
VIntLengthCheckedWitness ==
    /\ vintPc = "done"
    /\ vintBytes # <<>>
    /\ Len(vintBytes) > LeadingOneBits(vintBytes[1]) + 1
    /\ vintResult.kind = "error"

\* the 8 bits of a byte, most significant first
ByteBits(b) == [i \in 1..8 |-> (b \div Pow2(8 - i)) % 2]

RECURSIVE BytesBits(_)
BytesBits(bs) ==
    IF bs = <<>> THEN <<>> ELSE ByteBits(Head(bs)) \o BytesBits(Tail(bs))

\* the unsigned magnitude of a well-formed VInt with e extra bytes, in bits:
\* the low 7 - e bits of the first byte (none when e >= 7), then the e
\* trailing bytes
MagnitudeBits(bs) ==
    LET e == Len(bs) - 1
    IN  (IF e >= 7 THEN <<>> ELSE LastN(ByteBits(bs[1]), 7 - e))
        \o BytesBits(Tail(bs))

PadBits(bits, width) == Repeat(0, width - Len(bits)) \o bits

NotBits(bits) == [i \in 1..Len(bits) |-> 1 - bits[i]]

\* bits + 1 at the width of bits
RECURSIVE IncBits(_)
IncBits(bits) ==
    IF bits = <<>> THEN <<>>
    ELSE IF bits[Len(bits)] = 0
         THEN SubSeq(bits, 1, Len(bits) - 1) \o <<1>>
         ELSE IncBits(SubSeq(bits, 1, Len(bits) - 1)) \o <<0>>

\* C3: a well-formed VInt decodes to ZigZag(m), m the unsigned number made
\* of the low 7 - e bits of the first byte and the e trailing bytes:
\* m / 2 for even m (2 * r = m) and -(m + 1) / 2 for odd m
\* (r < 0 and 2 * (-r) = m + 1).
VIntZigZagValue ==
    (vintPc = "done" /\ vintResult.kind = "value")
        => LET m == MagnitudeBits(vintBytes)
               r == BytesBits(vintResult.value)
           IN  IF m[Len(m)] = 0
               THEN /\ r[1] = 0
                    /\ PadBits(r, 66) \o <<0>> = PadBits(m, 67)
               ELSE /\ r[1] = 1
                    /\ IncBits(PadBits(NotBits(r), 66)) \o <<0>>
                           = IncBits(PadBits(m, 67))

\* an all-1s first byte with an odd 8-byte payload was decoded
VIntZigZagValueWitness ==
    /\ vintPc = "done"
    /\ vintValue = NoValue
    /\ Len(vintBytes) = 9
    /\ vintBytes[1] = 255
    /\ vintBytes[9] % 2 = 1
    /\ vintBytes[2] = 0
    /\ vintResult.kind = "value"
    /\ vintResult.value[1] = 255

(***************************************************************************)
(* analyze_magic_number (validate_cassandra_compatibility.py, lines 19-42).*)
(* The big-endian uint32 can exceed 31 bits: it is kept as its high and    *)
(* low 16-bit halves.                                                      *)
(***************************************************************************)

\* line 24: magic = struct.unpack('>I', data[:4])[0]
UnpackUInt32(data) ==
    [hi |-> data[1] * 256 + data[2], lo |-> data[3] * 256 + data[4]]

\* lines 27-32: known_formats, keyed by the uint32 0xHHHH0000
known_formats ==
    [magic \in {[hi |-> 28513, lo |-> 0],      \* 0x6F610000
                [hi |-> 28258, lo |-> 0],      \* 0x6E620000
                [hi |-> 28003, lo |-> 0],      \* 0x6D630000
                [hi |-> 27748, lo |-> 0]}      \* 0x6C640000
        |-> CASE magic.hi = 28513 -> "Cassandra 'oa' format"
              [] magic.hi = 28258 -> "Cassandra 'nb' format"
              [] magic.hi = 28003 -> "Cassandra 'mc' format"
              [] magic.hi = 27748 -> "Cassandra 'ld' format"]

\* line 34 (the mask left out)
FormatCheckNoMask(magic) == magic

\* line 34: format_check = magic & 0xFFFF0000
FormatCheck(magic) == [hi |-> magic.hi, lo |-> 0]

HexDigits == "0123456789ABCDEF"

\* f"{n:0<width>X}" for 0 <= n < 16^width
RECURSIVE FormatHex(_, _)
FormatHex(n, width) ==
    IF width = 0 THEN ""
    ELSE FormatHex(n \div 16, width - 1)
         \o SubSeq(HexDigits, (n % 16) + 1, (n % 16) + 1)

\* lines 19-42
analyze_magic_number(data) ==
    IF Len(data) < 4
    THEN [kind |-> "dict", error |-> "File too short for magic number"]
    ELSE LET magic        == UnpackUInt32(data)
             format_check == FormatCheck(magic)
         IN  [kind              |-> "dict",
              magic_hex         |-> "0x" \o FormatHex(magic.hi, 4)
                                         \o FormatHex(magic.lo, 4),
              format_recognized |-> format_check \in DOMAIN known_formats,
              format_name       |-> IF format_check \in DOMAIN known_formats
                                    THEN known_formats[format_check]
                                    ELSE "Unknown format",
              version_bytes     |-> "0x" \o FormatHex(magic.lo, 4)]

\* the bytes of the four table entries and two others
MagicBytes == {111, 97, 110, 98, 109, 99, 108, 100, 0, 255}

\* byte strings handed to analyze_magic_number
MagicInputs ==
    {h \o t : h \in SeqsUpTo(MagicBytes, 2),
              t \in SeqsUpTo({0, 1, 255}, MaxMagicLen - 2)}
    \ {h \o t : h \in SeqsUpTo(MagicBytes, 1),
                t \in SeqsUpTo({0, 1, 255}, MaxMagicLen - 2) \ {<<>>}}

InitMagic ==
    /\ magicPc = "data"
    /\ magicData \in MagicInputs
    /\ magicResult = NoValue
    /\ IdleVInt /\ IdleConv /\ IdleValidate /\ IdleParse /\ IdleQuery /\ IdleLater

AnalyzeMagicNumber ==
    /\ magicPc = "data"
    /\ magicResult' = analyze_magic_number(magicData)
    /\ magicPc' = "done"
    /\ UNCHANGED <<magicData, notMagicVars>>

NextMagic == AnalyzeMagicNumber

SpecMagic == InitMagic /\ [][NextMagic]_vars

\* C4: magic-number detection.  For every input of at least 4 bytes the
\* format is reported recognized exactly when its first two bytes are those
\* of a table entry ('oa', 'nb', 'mc', 'ld'), whatever the two version bytes
\* are; 6F 61 xx xx is named "Cassandra 'oa' format"; an unrecognized magic
\* number is answered with recognized = false, never with an error.
MagicDetection ==
    (magicPc = "done" /\ Len(magicData) >= 4)
        => /\ "error" \notin DOMAIN magicResult
           /\ magicResult.format_recognized \in BOOLEAN
           /\ magicResult.format_recognized
                <=> <<magicData[1], magicData[2]>>
                        \in {<<111, 97>>, <<110, 98>>, <<109, 99>>, <<108, 100>>}
           /\ (magicData[1] = 111 /\ magicData[2] = 97)
                => magicResult.format_name = "Cassandra 'oa' format"

\* 6F 61 with non-zero version bytes was recognized as 'oa'
MagicDetectionWitness ==
    /\ magicPc = "done"
    /\ Len(magicData) >= 4
    /\ magicData[1] = 111 /\ magicData[2] = 97
    /\ magicData[3] = 255 /\ magicData[4] = 1
    /\ magicResult.format_recognized
    /\ magicResult.format_name = "Cassandra 'oa' format"
    /\ magicResult.magic_hex = "0x6F61FF01"
    /\ magicResult.version_bytes = "0xFF01"

(***************************************************************************)
(* Python values of the type system (cqlite/types.py).  A value carries    *)
(* its Python type; a raised exception is an outcome of its own.           *)
(***************************************************************************)
PyNone == [t |-> "NoneType"]
PyStr(s) == [t |-> "str", v |-> s]
PyInt(n) == [t |-> "int", v |-> n]
PyFloat(n) == [t |-> "float", v |-> n]       \* whole-number floats only
PyBool(b) == [t |-> "bool", v |-> b]
PyList(items) == [t |-> "list", v |-> items]
PyTuple(items) == [t |-> "tuple", v |-> items]
PySet(elements) == [t |-> "set", v |-> elements]
PyDict(pairs) == [t |-> "dict", v |-> pairs]  \* <<key, value>> in insertion order
Raised(exc) == [t |-> "raise", exc |-> exc]
\* an outcome outside what the model covers (string parsing of the
\* temporal, network, decimal and blob types); no input reaches it
NotModelled == [t |-> "notmodelled"]

IsRaised(outcome) == outcome.t = "raise"

\* isinstance(value, (list, tuple)) and the like
IsInstance(value, types) == value.t \in types

Digits == "0123456789"

\* str(n) for an int n >= 0
RECURSIVE NatToStr(_)
NatToStr(n) ==
    IF n < 10 THEN CharAt(Digits, n + 1)
    ELSE NatToStr(n \div 10) \o CharAt(Digits, (n % 10) + 1)

\* str(n) for an int
IntToStr(n) == IF n < 0 THEN "-" \o NatToStr(-n) ELSE NatToStr(n)

\* repr(value) in place of str(value): a str gains quotes
StrOfRepr(value) ==
    CASE value.t = "NoneType" -> PyStr("None")
      [] value.t = "str"      -> PyStr("'" \o value.v \o "'")
      [] value.t = "int"      -> PyStr(IntToStr(value.v))
      [] value.t = "bool"     -> PyStr(IF value.v THEN "True" ELSE "False")
      [] OTHER                -> NotModelled

\* str(value), for None, str, int and bool values
StrOf(value) ==
    CASE value.t = "NoneType" -> PyStr("None")
      [] value.t = "str"      -> value
      [] value.t = "int"      -> PyStr(IntToStr(value.v))
      [] value.t = "bool"     -> PyStr(IF value.v THEN "True" ELSE "False")
      [] OTHER                -> NotModelled

AllDigits(s) == \A i \in 1..Len(s) : IndexIn(CharAt(s, i), Digits, 1) # 0

RECURSIVE DigitsToNat(_)
DigitsToNat(s) ==
    IF s = "" THEN 0
    ELSE 10 * DigitsToNat(SubSeq(s, 1, Len(s) - 1))
         + (IndexIn(CharAt(s, Len(s)), Digits, 1) - 1)

\* int(s) for a str: surrounding whitespace and one sign are allowed
IntOfStr(s) ==
    LET body   == Strip(s)
        signed == body # "" /\ Head(body) \in {"+", "-"}
        digits == IF signed THEN Tail(body) ELSE body
    IN  IF digits = "" \/ ~AllDigits(digits) THEN Raised("ValueError")
        ELSE PyInt(IF signed /\ Head(body) = "-"
                   THEN -DigitsToNat(digits) ELSE DigitsToNat(digits))

\* int(value)
IntOf(value) ==
    CASE value.t = "str"   -> IntOfStr(value.v)
      [] value.t = "int"   -> value
      [] value.t = "float" -> PyInt(value.v)
      [] value.t = "bool"  -> PyInt(IF value.v THEN 1 ELSE 0)
      [] OTHER             -> Raised("TypeError")

\* float(value), on whole numbers
FloatOf(value) ==
    CASE value.t = "str"   ->
            (LET n == IntOfStr(value.v)
             IN  IF IsRaised(n) THEN NotModelled ELSE PyFloat(n.v))
      [] value.t = "int"   -> PyFloat(value.v)
      [] value.t = "float" -> value
      [] value.t = "bool"  -> PyFloat(IF value.v THEN 1 ELSE 0)
      [] OTHER             -> Raised("TypeError")

\* bool(value)
BoolOf(value) ==
    CASE value.t = "NoneType" -> PyBool(FALSE)
      [] value.t = "bool"     -> value
      [] value.t = "int"      -> PyBool(value.v # 0)
      [] value.t = "float"    -> PyBool(value.v # 0)
      [] value.t = "str"      -> PyBool(value.v # "")
      [] value.t \in {"list", "tuple", "dict"} -> PyBool(value.v # <<>>)
      [] value.t = "set"      -> PyBool(value.v # {})
      [] OTHER                -> PyBool(TRUE)

\* the characters of a str as a list of one-character str values
RECURSIVE CharsOf(_)
CharsOf(s) == IF s = "" THEN <<>> ELSE <<PyStr(Head(s))>> \o CharsOf(Tail(s))

\* the members of the enumeration CQLType (types.py, lines 16-57)
CQLType ==
    {"text", "varchar", "ascii", "int", "smallint", "tinyint", "bigint",
     "varint", "float", "double", "decimal", "boolean", "blob", "uuid",
     "timeuuid", "timestamp", "date", "time", "duration", "inet", "list",
     "set", "map", "tuple", "udt", "counter"}

\* types.py line 178: cql_type_string.split('<')[0].lower().strip()
BaseType(cql_type_string) == Strip(Lower(SplitOn(cql_type_string, "<")[1]))

\* types.py lines 327-349
RECURSIVE SplitTypeParamsLoop(_, _, _, _)
SplitTypeParamsLoop(params_string, parts, current, depth) ==
    IF params_string = ""
    THEN IF Strip(current) # "" THEN Append(parts, Strip(current)) ELSE parts
    ELSE LET char == Head(params_string)
             rest == Tail(params_string)
         IN  IF char = "<"
             THEN SplitTypeParamsLoop(rest, parts, current \o char, depth + 1)
             ELSE IF char = ">"
             THEN SplitTypeParamsLoop(rest, parts, current \o char, depth - 1)
             ELSE IF char = "," /\ depth = 0
             THEN SplitTypeParamsLoop(rest, Append(parts, Strip(current)), "", depth)
             ELSE SplitTypeParamsLoop(rest, parts, current \o char, depth)

\* a split at every comma, whatever the bracket depth
SplitTypeParamsNaive(params_string) ==
    LET pieces == SplitOn(params_string, ",")
    IN  [i \in 1..Len(pieces) |-> Strip(pieces[i])]

_split_type_params(params_string) == SplitTypeParamsLoop(params_string, <<>>, "", 0)

\* cql_type_string[start:end] with start = find('<') + 1, end = rfind('>')
InnerType(cql_type_string) ==
    Slice(cql_type_string, Find(cql_type_string, "<") + 1, RFind(cql_type_string, ">"))

HasBrackets(cql_type_string) ==
    Contains(cql_type_string, "<") /\ Contains(cql_type_string, ">")

\* types.py lines 291-297
_extract_element_type(cql_type_string) ==
    IF HasBrackets(cql_type_string) THEN Strip(InnerType(cql_type_string)) ELSE "text"

\* types.py lines 300-312
_extract_map_types(cql_type_string) ==
    LET parts == _split_type_params(Strip(InnerType(cql_type_string)))
    IN  IF HasBrackets(cql_type_string) /\ Len(parts) >= 2
        THEN <<Strip(parts[1]), Strip(parts[2])>>
        ELSE <<"text", "text">>

\* types.py lines 315-324
_extract_tuple_types(cql_type_string) ==
    IF HasBrackets(cql_type_string)
    THEN LET parts == _split_type_params(Strip(InnerType(cql_type_string)))
         IN  [i \in 1..Len(parts) |-> Strip(parts[i])]
    ELSE <<"text">>

\* the first raised outcome of a sequence of outcomes, or NoValue
RECURSIVE FirstRaised(_)
FirstRaised(outcomes) ==
    IF outcomes = <<>> THEN NoValue
    ELSE IF IsRaised(Head(outcomes)) THEN Head(outcomes)
         ELSE FirstRaised(Tail(outcomes))

\* a set's members in some order (Python iterates a set in hash order)
RECURSIVE SetToSeq(_)
SetToSeq(S) ==
    IF S = {} THEN <<>>
    ELSE LET x == CHOOSE y \in S : TRUE IN <<x>> \o SetToSeq(S \ {x})

\* a dict built from <<key, value>> pairs in order: a repeated key keeps its
\* first position and takes the last value
RECURSIVE DictFromPairs(_, _)
DictFromPairs(pairs, built) ==
    IF pairs = <<>> THEN built
    ELSE LET k == Head(pairs)[1]
             v == Head(pairs)[2]
             at == {i \in 1..Len(built) : built[i][1] = k}
         IN  DictFromPairs(Tail(pairs),
                 IF at = {} THEN Append(built, <<k, v>>)
                 ELSE [i \in 1..Len(built) |-> IF i \in at THEN <<k, v>> ELSE built[i]])

\* the comparison without value.lower()
BooleanOfStrCaseSensitive(value) == PyBool(value.v \in {"true", "1", "yes", "on"})

\* types.py line 210: value.lower() in ('true', '1', 'yes', 'on')
BooleanOfStr(value) == PyBool(Lower(value.v) \in {"true", "1", "yes", "on"})

\* every element converted with the first declared type
TupleElementTypeFirst(element_types, i) ==
    IF element_types # <<>> THEN element_types[1] ELSE "text"

\* types.py line 278: element_types[i] if i < len(element_types) else "text",
\* with i counted from 1
TupleElementType(element_types, i) ==
    IF i <= Len(element_types) THEN element_types[i] ELSE "text"

\* types.py line 175 (the test for None never taken)
IsNoneNever(value) == FALSE

\* types.py line 175: if value is None
IsNone(value) == value = PyNone

\* types.py lines 158-288.  The outcome is the returned value or the
\* exception raised.
RECURSIVE convert_cql_value(_, _)
convert_cql_value(value, cql_type_string) ==
    IF IsNone(value) THEN PyNone
    ELSE
    LET cql_type == BaseType(cql_type_string) IN
    IF cql_type \notin CQLType THEN value            \* unknown type: as-is
    ELSE
    CASE cql_type \in {"text", "varchar", "ascii"} -> StrOf(value)
      [] cql_type \in {"int", "smallint", "tinyint", "bigint", "counter"} -> IntOf(value)
      [] cql_type = "varint" -> IntOf(value)
      [] cql_type \in {"float", "double"} -> FloatOf(value)
      [] cql_type = "boolean" ->
            IF IsInstance(value, {"str"})
            THEN BooleanOfStr(value)
            ELSE BoolOf(value)
      [] cql_type \in {"uuid", "timeuuid", "date", "time", "inet"} ->
            IF IsInstance(value, {"str"}) THEN NotModelled ELSE value
      [] cql_type = "timestamp" ->
            IF IsInstance(value, {"str", "int", "float", "bool"})
            THEN NotModelled ELSE value
      [] cql_type \in {"decimal", "blob"} -> NotModelled
      [] cql_type = "list" ->
            IF IsInstance(value, {"list", "tuple"})
            THEN LET element_type == _extract_element_type(cql_type_string)
                     items == [i \in 1..Len(value.v) |->
                                  convert_cql_value(value.v[i], element_type)]
                 IN  IF FirstRaised(items) # NoValue THEN FirstRaised(items)
                     ELSE PyList(items)
            ELSE \* list(value) if value is not None else []
                 CASE value.t = "NoneType" -> PyList(<<>>)
                   [] value.t = "str"  -> PyList(CharsOf(value.v))
                   [] value.t = "set"  -> PyList(SetToSeq(value.v))
                   [] value.t = "dict" -> PyList([i \in 1..Len(value.v) |-> value.v[i][1]])
                   [] OTHER -> Raised("TypeError")
      [] cql_type = "set" ->
            IF IsInstance(value, {"list", "tuple", "set"})
            THEN LET element_type == _extract_element_type(cql_type_string)
                     source == IF value.t = "set" THEN SetToSeq(value.v) ELSE value.v
                     items == [i \in 1..Len(source) |->
                                  convert_cql_value(source[i], element_type)]
                 IN  IF FirstRaised(items) # NoValue THEN FirstRaised(items)
                     ELSE PySet({items[i] : i \in 1..Len(items)})
            ELSE \* set(value) if value is not None else set()
                 CASE value.t = "NoneType" -> PySet({})
                   [] value.t = "str"  -> PySet({PyStr(CharAt(value.v, i)) : i \in 1..Len(value.v)})
                   [] value.t = "dict" -> PySet({value.v[i][1] : i \in 1..Len(value.v)})
                   [] OTHER -> Raised("TypeError")
      [] cql_type = "map" ->
            IF IsInstance(value, {"dict"})
            THEN LET types == _extract_map_types(cql_type_string)
                     keys == [i \in 1..Len(value.v) |->
                                 convert_cql_value(value.v[i][1], types[1])]
                     vals == [i \in 1..Len(value.v) |->
                                 convert_cql_value(value.v[i][2], types[2])]
                     both == [i \in 1..(2 * Len(value.v)) |->
                                 IF i % 2 = 1 THEN keys[(i + 1) \div 2] ELSE vals[i \div 2]]
                 IN  IF FirstRaised(both) # NoValue THEN FirstRaised(both)
                     ELSE PyDict(DictFromPairs(
                              [i \in 1..Len(value.v) |-> <<keys[i], vals[i]>>], <<>>))
            ELSE \* dict(value) if value is not None else {}
                 CASE value.t = "NoneType" -> PyDict(<<>>)
                   [] value.t \in {"list", "tuple"} /\ value.v = <<>> -> PyDict(<<>>)
                   [] value.t \in {"int", "float", "bool"} -> Raised("TypeError")
                   [] OTHER -> NotModelled
      [] cql_type = "tuple" ->
            IF IsInstance(value, {"list", "tuple"})
            THEN LET element_types == _extract_tuple_types(cql_type_string)
                     converted == [i \in 1..Len(value.v) |->
                                      convert_cql_value(value.v[i],
                                          TupleElementType(element_types, i))]
                 IN  IF FirstRaised(converted) # NoValue THEN FirstRaised(converted)
                     ELSE PyTuple(converted)
            ELSE \* tuple(value) if value is not None else tuple()
                 CASE value.t = "NoneType" -> PyTuple(<<>>)
                   [] value.t = "str"  -> PyTuple(CharsOf(value.v))
                   [] value.t = "set"  -> PyTuple(SetToSeq(value.v))
                   [] value.t = "dict" -> PyTuple([i \in 1..Len(value.v) |-> value.v[i][1]])
                   [] OTHER -> Raised("TypeError")
      [] cql_type = "udt" ->
            \* dict(value) if value is not None else {}
            CASE value.t = "NoneType" -> PyDict(<<>>)
              [] value.t = "dict" -> value
              [] value.t \in {"list", "tuple"} /\ value.v = <<>> -> PyDict(<<>>)
              [] value.t \in {"int", "float", "bool"} -> Raised("TypeError")
              [] OTHER -> NotModelled
      [] OTHER -> value                              \* duration: as-is

(***************************************************************************)
(* Inputs of the value-conversion harness.                                 *)
(***************************************************************************)
ScalarValues ==
    {PyStr(x) : x \in {"", "42", " 7 ", "-3", "abc", "true", "TRUE", "Yes",
                       "on", "1", "0", "false"}}
    \cup {PyInt(n) : n \in {-3, 0, 1, 42}}
    \cup {PyBool(TRUE), PyBool(FALSE), PyFloat(2)}

ElementValues == {PyInt(1), PyStr("2"), PyStr("x"), PyNone}

CollectionValues ==
    {PyList(items) : items \in SeqsUpTo(ElementValues, MaxCollectionLen)}
    \cup {PyTuple(items) : items \in SeqsUpTo(ElementValues, MaxCollectionLen)}
    \cup {PySet(members) : members \in SUBSET {PyInt(1), PyInt(2), PyStr("2")}}
    \cup {PyDict(<<>>),
          PyDict(<<<<PyStr("a"), PyInt(1)>>>>),
          PyDict(<<<<PyStr("a"), PyStr("1")>>, <<PyStr("b"), PyNone>>>>),
          PyDict(<<<<PyInt(1), PyStr("x")>>, <<PyStr("1"), PyStr("y")>>>>)}

\* type strings whose conversion of a value other than None is modelled
ConvertedTypes ==
    {"text", "varchar", "ascii", "int", "smallint", "tinyint", "bigint",
     "counter", "varint", "double", "boolean", "duration", "udt",
     "list<int>", "list<text>", "LIST<INT>", " list < int > ", "list",
     "list<list<int>>", "set<int>", "set<text>", "map<text,int>",
     "map<int,text>", "map<text, list<int>>", "tuple<int,text>",
     "tuple<text>", "frozen<list<int>>", "custom_type"}

\* every member of CQLType and the parameterized forms
AllTypes ==
    ConvertedTypes \cup CQLType
    \cup {"list<uuid>", "set<timestamp>", "map<text,decimal>", "tuple<date,time>"}

\* None with every type; the other values with the types whose conversion
\* of that value the model covers
ConvertInputs ==
    {<<PyNone, T>> : T \in AllTypes}
    \cup {input \in (ScalarValues \cup CollectionValues) \X ConvertedTypes :
              convert_cql_value(input[1], input[2]) # NotModelled}

InitConv ==
    /\ convPc = "input"
    /\ \E input \in ConvertInputs :
          /\ convValue = input[1]
          /\ convType = input[2]
    /\ convResult = NoValue
    /\ convAgain = NoValue
    /\ IdleVInt /\ IdleMagic /\ IdleValidate /\ IdleParse /\ IdleQuery /\ IdleLater

ConvertValue ==
    /\ convPc = "input"
    /\ convResult' = convert_cql_value(convValue, convType)
    /\ convPc' = "done"
    /\ UNCHANGED <<convValue, convType, convAgain, notConvVars>>

\* the value returned is converted once more with the same type
ConvertAgain ==
    /\ convPc = "done"
    /\ ~IsRaised(convResult)
    /\ convAgain' = convert_cql_value(convResult, convType)
    /\ convPc' = "again"
    /\ UNCHANGED <<convValue, convType, convResult, notConvVars>>

NextConv ==
    \/ ConvertValue
    \/ ConvertAgain

SpecConv == InitConv /\ [][NextConv]_vars

NullCollectionNormalized ==
    (convPc = "done" /\ convValue = PyNone)
        => /\ BaseType(convType) = "list" => convResult = PyList(<<>>)
           /\ BaseType(convType) = "set" => convResult = PySet({})

(***************************************************************************)
(* Converting a converted value again (types.py, convert_cql_value).       *)
(***************************************************************************)
\* a value of the shape the type's own branch converts element by element:
\* a list or tuple for list and tuple types, a list, tuple or set for set
\* types, a dict for map types, with elements, keys and values of the shape
\* of their types; any value for a scalar type
RECURSIVE Representable(_, _)
Representable(value, cql_type_string) ==
    \/ value = PyNone
    \/ LET cql_type == BaseType(cql_type_string)
       IN  CASE cql_type = "list" ->
                   /\ IsInstance(value, {"list", "tuple"})
                   /\ \A i \in 1..Len(value.v) :
                         Representable(value.v[i],
                                       _extract_element_type(cql_type_string))
             [] cql_type = "set" ->
                   /\ IsInstance(value, {"list", "tuple", "set"})
                   /\ \A item \in (IF value.t = "set" THEN value.v
                                   ELSE {value.v[i] : i \in 1..Len(value.v)}) :
                         Representable(item, _extract_element_type(cql_type_string))
             [] cql_type = "map" ->
                   /\ IsInstance(value, {"dict"})
                   /\ \A i \in 1..Len(value.v) :
                         /\ Representable(value.v[i][1],
                                          _extract_map_types(cql_type_string)[1])
                         /\ Representable(value.v[i][2],
                                          _extract_map_types(cql_type_string)[2])
             [] cql_type = "tuple" ->
                   /\ IsInstance(value, {"list", "tuple"})
                   /\ \A i \in 1..Len(value.v) :
                         Representable(value.v[i],
                             TupleElementType(_extract_tuple_types(cql_type_string), i))
             [] OTHER -> TRUE

\* C20: type conversion idempotence.  For every supported type T, scalar or
\* list, set, map or tuple, and every raw input x that T can represent (x
\* has the shape of T and its conversion does not raise), converting the
\* converted value again with T gives the same value.
ConversionIdempotent ==
    (convPc = "again" /\ Representable(convValue, convType))
        => convAgain = convResult

\* a list of a str and an int converted with list<int>, and converted again
ConversionIdempotentWitness ==
    /\ convPc = "again"
    /\ convType = "list<int>"
    /\ convValue = PyList(<<PyStr("2"), PyInt(1)>>)
    /\ convResult = PyList(<<PyInt(2), PyInt(1)>>)
    /\ convAgain = convResult

(***************************************************************************)
(* Boolean and tuple conversion (types.py, lines 208-211 and 273-281).     *)
(***************************************************************************)
\* the two strings are the same but for the case of their letters
SameIgnoringCase(a, b) ==
    /\ Len(a) = Len(b)
    /\ \A i \in 1..Len(a) : UpperChar(CharAt(a, i)) = UpperChar(CharAt(b, i))

\* C22: boolean conversion.  A string converts to true if and only if,
\* ignoring letter case, it is one of "true", "1", "yes", "on"; every other
\* string converts to false; a native boolean is returned unchanged.
BooleanConversion ==
    (convPc \in {"done", "again"} /\ BaseType(convType) = "boolean") =>
        /\ convValue.t = "str" =>
              convResult = PyBool(\E word \in {"true", "1", "yes", "on"} :
                                      SameIgnoringCase(convValue.v, word))
        /\ convValue.t = "bool" => convResult = convValue

\* "Yes" was converted to true
BooleanConversionWitness ==
    /\ convPc = "done"
    /\ convType = "boolean"
    /\ convValue = PyStr("Yes")
    /\ convResult = PyBool(TRUE)

\* the declared parameter types of the tuple types converted
DeclaredTupleTypes(cql_type_string) ==
    CASE cql_type_string = "tuple<int,text>" -> <<"int", "text">>
      [] cql_type_string = "tuple<text>"     -> <<"text">>

\* C23: tuple conversion is positional.  The result has the length and the
\* order of the input sequence; element i is converted with the i-th
\* declared type of the tuple type, and with text when the input has more
\* values than declared types.
TuplePositional ==
    (/\ convPc \in {"done", "again"}
     /\ convType \in {"tuple<int,text>", "tuple<text>"}
     /\ convValue.t \in {"list", "tuple"}) =>
        LET declared == DeclaredTupleTypes(convType)
            expected == [i \in 1..Len(convValue.v) |->
                            convert_cql_value(convValue.v[i],
                                IF i <= Len(declared) THEN declared[i] ELSE "text")]
        IN  IF \E i \in 1..Len(expected) : IsRaised(expected[i])
            THEN IsRaised(convResult)
            ELSE convResult = PyTuple(expected)

\* two values converted with tuple<text>: the second with the fallback type
TuplePositionalWitness ==
    /\ convPc = "done"
    /\ convType = "tuple<text>"
    /\ convValue = PyList(<<PyStr("2"), PyInt(1)>>)
    /\ convResult = PyTuple(<<PyStr("2"), PyStr("1")>>)

(***************************************************************************)
(* SSTableReader.validate_query (cqlite/reader.py, lines 324-359).         *)
(***************************************************************************)

\* line 345: "DELETE" in sql_upper or "INSERT" in sql_upper or "UPDATE" in sql_upper
HasWriteKeyword(sql_upper) ==
    \/ Contains(sql_upper, "DELETE")
    \/ Contains(sql_upper, "INSERT")
    \/ Contains(sql_upper, "UPDATE")

\* lines 337-352.  sql is a str, so nothing in the try block raises.
validate_query(sql) ==
    LET sql_upper == Upper(Strip(sql))
        errors ==
            (IF ~StartsWith(sql_upper, "SELECT")
             THEN <<"Only SELECT statements are supported">> ELSE <<>>)
            \o (IF HasWriteKeyword(sql_upper)
                THEN <<"Only read-only SELECT operations are allowed">> ELSE <<>>)
    IN  [valid |-> Len(errors) = 0, errors |-> errors, warnings |-> <<>>]

\* SELECT statements: leading blanks, keyword case, columns, table, and what
\* follows the table
SelectStatements ==
    {lead \o select \o " " \o columns \o " " \o from \o " " \o table \o rest :
        lead \in {"", "  ", "\t"},
        select \in {"SELECT", "select", "Select"},
        columns \in {"*", "id, name", "updated_at"},
        from \in {"FROM", "from"},
        table \in {"users", "inserts"},
        rest \in {"", " ", " WHERE age > 25", " LIMIT 5",
                  "; DROP TABLE users", "; drop table users",
                  "; CREATE TABLE t (id int)", "; DELETE FROM users",
                  "; insert into users values (1)",
                  "; UPDATE users SET age = 1"}}

\* the statements of tests/test_queries.py that must be refused, and others
\* that do not begin with SELECT
OtherStatements ==
    {"", "   ", "\t\t", "\n\n",
     "INSERT INTO users VALUES (1, 'test')",
     "UPDATE users SET name = 'test'",
     "DELETE FROM users",
     "CREATE TABLE test (id int)",
     "DROP TABLE users",
     "drop table users",
     "  create table test (id int)",
     "SHOW TABLES",
     "SELEC * FROM users",
     "(SELECT * FROM users)"}

InitValidate ==
    /\ validatePc = "input"
    /\ validateSql \in SelectStatements \cup OtherStatements
    /\ validateResult = NoValue
    /\ IdleVInt /\ IdleMagic /\ IdleConv /\ IdleParse /\ IdleQuery /\ IdleLater

ValidateQuery ==
    /\ validatePc = "input"
    /\ validateResult' = validate_query(validateSql)
    /\ validatePc' = "done"
    /\ UNCHANGED <<validateSql, notValidateVars>>

NextValidate == ValidateQuery

SpecValidate == InitValidate /\ [][NextValidate]_vars

\* C7: read-only enforcement.  A statement that is empty or whitespace-only,
\* that does not begin with SELECT (case-insensitive, after trimming), or
\* that contains one of the keywords INSERT, UPDATE, DELETE, CREATE, DROP is
\* refused: valid = false with at least one error.
ReadOnlyEnforced ==
    (/\ validatePc = "done"
     /\ \/ Strip(validateSql) = ""
        \/ ~StartsWith(Upper(Strip(validateSql)), "SELECT")
        \/ \E keyword \in {"INSERT", "UPDATE", "DELETE", "CREATE", "DROP"} :
               Contains(Upper(validateSql), keyword))
        => /\ ~validateResult.valid
           /\ Len(validateResult.errors) >= 1

\* the words of a statement: the maximal runs of letters, digits and "_"
RECURSIVE WordsFrom(_, _)
WordsFrom(s, current) ==
    IF s = ""
    THEN IF current = "" THEN <<>> ELSE <<current>>
    ELSE IF Head(s) \in Whitespace \cup {",", ";", "(", ")", "=", ">", "<", "*", "'"}
         THEN (IF current = "" THEN <<>> ELSE <<current>>) \o WordsFrom(Tail(s), "")
         ELSE WordsFrom(Tail(s), current \o Head(s))

\* C27: validate_query accepts every read-only SELECT.  A statement that
\* begins with SELECT and has none of the write keywords as a word of its own
\* is reported valid with no errors, also when an identifier merely contains
\* such a keyword (a column updated_at, a table inserts).
ReadOnlySelectAccepted ==
    (/\ validatePc = "done"
     /\ StartsWith(Upper(Strip(validateSql)), "SELECT")
     /\ LET words == WordsFrom(Upper(validateSql), "")
        IN  \A i \in 1..Len(words) :
               words[i] \notin {"INSERT", "UPDATE", "DELETE", "CREATE", "DROP"})
        => /\ validateResult.valid
           /\ validateResult.errors = <<>>

(***************************************************************************)
(* _extract_columns_from_query (cqlite/utils.py, lines 264-296).           *)
(***************************************************************************)

\* lines 287-294: one column of the SELECT clause
CleanColumn(raw) ==
    LET col      == Strip(raw)
        no_alias == IF Contains(Upper(col), " AS ")
                    THEN Strip(SplitOn(col, " AS ")[1]) ELSE col
    IN  IF Contains(no_alias, " ") THEN Strip(Split(no_alias)[1]) ELSE no_alias

\* lines 264-296.  The positions are found in the stripped, upper-cased
\* statement and applied to the statement as given.
_extract_columns_from_query(sql) ==
    LET sql_upper  == Upper(Strip(sql))
        select_pos == Find(sql_upper, "SELECT") + 6
        from_pos   == Find(sql_upper, " FROM ")
    IN  IF ~StartsWith(sql_upper, "SELECT") THEN <<>>
        ELSE IF from_pos = -1 THEN <<>>
        ELSE LET columns_part == Strip(Slice(sql, select_pos, from_pos))
             IN  IF columns_part = "*" THEN <<"*">>
                 ELSE LET raw == SplitOn(columns_part, ",")
                      IN  [i \in 1..Len(raw) |-> CleanColumn(raw[i])]

(***************************************************************************)
(* SSTableReader of tests/e2e/cross_language_suite.py (lines 297-459):     *)
(* query, _parse_select_query, _plan_execution, _parse_where_clause,       *)
(* _execute_plan, _row_matches_filters, _project_columns.                  *)
(***************************************************************************)

\* the 1-based positions i with part.upper() == keyword
KeywordPositions(parts, keyword) ==
    {i \in 1..Len(parts) : Upper(parts[i]) = keyword}

Min(S) == CHOOSE x \in S : \A y \in S : x <= y

\* lines 328-359.  next(...) on an exhausted generator raises.
_parse_select_query(given) ==
    LET cql == Strip(given) IN
    IF ~StartsWith(Upper(cql), "SELECT") THEN Raised("CQLiteEngineError")
    ELSE
    LET parts == Split(cql)
        selects == KeywordPositions(parts, "SELECT")
        froms   == KeywordPositions(parts, "FROM")
        wheres  == KeywordPositions(parts, "WHERE")
    IN  IF selects = {} \/ froms = {} THEN Raised("StopIteration")
        ELSE LET select_idx == Min(selects)
                 from_idx   == Min(froms)
                 columns_str == Join(" ", SubSeq(parts, select_idx + 1, from_idx - 1))
                 raw == SplitOn(columns_str, ",")
             IN  [t |-> "parsed",
                  columns |-> [i \in 1..Len(raw) |-> Strip(raw[i])],
                  table |-> IF from_idx + 1 <= Len(parts)
                            THEN PyStr(parts[from_idx + 1]) ELSE PyNone,
                  where |-> IF wheres # {}
                            THEN PyStr(Join(" ", SubSeq(parts, Min(wheres) + 1, Len(parts))))
                            ELSE PyNone,
                  original_query |-> cql]

\* lines 378-392
_parse_where_clause(where_clause) ==
    IF Contains(where_clause, "=")
    THEN LET parts == SplitOn(where_clause, "=")
         IN  IF Len(parts) = 2
             THEN <<[column   |-> Strip(parts[1]),
                     operator |-> "=",
                     value    |-> StripChars(Strip(parts[2]), {"'", "\""})]>>
             ELSE <<>>
    ELSE <<>>

\* lines 361-376
_plan_execution(parsed_query) ==
    LET filters == IF parsed_query.where # PyNone /\ parsed_query.where.v # ""
                   THEN _parse_where_clause(parsed_query.where.v) ELSE <<>>
    IN  [type |-> "table_scan",
         columns |-> parsed_query.columns,
         filters |-> filters,
         estimated_cost |-> 1000,
         use_index |-> Len(filters) > 0]

\* line 406: for i in range(100)
NumRows == 100

\* f"{n:02d}"
TwoDigits(n) == IF n < 10 THEN "0" \o NatToStr(n) ELSE NatToStr(n)

\* lines 407-413: the row the scan produces for i, columns in dict order
SimulatedRow(i) ==
    <<<<"id", PyInt(i)>>,
      <<"name", PyStr("user_" \o NatToStr(i))>>,
      <<"email", PyStr("user_" \o NatToStr(i) \o "@example.com")>>,
      <<"age", PyInt(20 + (i % 60))>>,
      <<"created_at", PyStr("2023-01-" \o TwoDigits((i % 28) + 1) \o " 00:00:00")>>>>

\* column in row
HasColumn(row, column) == \E k \in 1..Len(row) : row[k][1] = column

\* row[column]
RowValue(row, column) ==
    row[CHOOSE k \in 1..Len(row) : row[k][1] = column][2]

\* float(x) for the comparison: whole numbers; text that is no number raises
FloatForCompare(value) ==
    IF value.t = "str"
    THEN LET n == IntOfStr(value.v)
         IN  IF ~IsRaised(n) THEN PyFloat(n.v)
             ELSE IF \A i \in 1..Len(value.v) :
                        CharAt(value.v, i) \in Whitespace
                        \/ IndexIn(CharAt(value.v, i), "0123456789+-.eE_", 1) # 0
                  THEN NotModelled
                  ELSE Raised("ValueError")
    ELSE FloatOf(value)

\* lines 423-446: True, False, or the exception a float() raised
RECURSIVE _row_matches_filters(_, _)
_row_matches_filters(row, filters) ==
    IF filters = <<>> THEN PyBool(TRUE)
    ELSE LET column   == Head(filters).column
             operator == Head(filters).operator
             value    == Head(filters).value
         IN  IF ~HasColumn(row, column) THEN PyBool(FALSE)
             ELSE LET row_value == RowValue(row, column)
                      left  == FloatForCompare(row_value)
                      right == FloatForCompare(PyStr(value))
                  IN  CASE operator = "=" ->
                             IF StrOf(row_value).v # value THEN PyBool(FALSE)
                             ELSE _row_matches_filters(row, Tail(filters))
                        [] operator \in {">", "<"} ->
                             IF IsRaised(left) THEN left
                             ELSE IF IsRaised(right) THEN right
                             ELSE IF operator = ">" /\ left.v <= right.v THEN PyBool(FALSE)
                             ELSE IF operator = "<" /\ left.v >= right.v THEN PyBool(FALSE)
                             ELSE _row_matches_filters(row, Tail(filters))
                        [] OTHER -> _row_matches_filters(row, Tail(filters))

\* lines 448-459
_project_columns(row, columns) ==
    IF \E i \in 1..Len(columns) : columns[i] = "*" THEN row
    ELSE LET present == SelectSeq([i \in 1..Len(columns) |-> Strip(columns[i])],
                                  LAMBDA column : HasColumn(row, column))
         IN  DictFromPairs([i \in 1..Len(present) |->
                               <<present[i], RowValue(row, present[i])>>], <<>>)

\* lines 405-421: the scan, row by row; the first exception a filter raises
\* ends it, otherwise the matching rows are projected in scan order
_execute_plan(execution_plan) ==
    LET rows    == [k \in 1..NumRows |-> SimulatedRow(k - 1)]
        matches == [k \in 1..NumRows |->
                       _row_matches_filters(rows[k], execution_plan.filters)]
        raising == {k \in 1..NumRows : IsRaised(matches[k])}
    IN  IF raising # {}
        THEN matches[CHOOSE k \in raising : \A j \in raising : k <= j]
        ELSE LET kept == SelectSeq([k \in 1..NumRows |-> k], LAMBDA k : matches[k].v)
             IN  [t |-> "rows",
                  rows |-> [n \in 1..Len(kept) |->
                               _project_columns(rows[kept[n]], execution_plan.columns)]]

\* lines 297-326: any exception becomes a CQLiteEngineError
query(cql) ==
    LET parsed == _parse_select_query(cql)
    IN  IF IsRaised(parsed) THEN Raised("CQLiteEngineError")
        ELSE LET results == _execute_plan(_plan_execution(parsed))
             IN  IF IsRaised(results) THEN Raised("CQLiteEngineError") ELSE results

(***************************************************************************)
(* The parsing harness: one statement written in its canonical form        *)
(* (upper-case keywords, single spaces) and in another form that differs   *)
(* only in keyword case and whitespace; both are parsed.                   *)
(***************************************************************************)
KeywordIn(keyword, style) ==
    CASE style = "upper"   -> keyword
      [] style = "lower"   -> Lower(keyword)
      [] style = "capital" -> Head(keyword) \o Lower(Tail(keyword))

\* the tokens of the statement, keywords written in the given style
StatementTokens(parts, style) ==
    <<KeywordIn("SELECT", style)>>
    \o [i \in 1..Len(parts.columns) |->
           IF parts.columns[i] = "AS" THEN KeywordIn("AS", style) ELSE parts.columns[i]]
    \o <<KeywordIn("FROM", style), parts.table>>
    \o (IF parts.where = <<>> THEN <<>> ELSE <<KeywordIn("WHERE", style)>> \o parts.where)

\* the statement, its tokens separated by sep, between margins
Statement(parts, style, sep, margin) ==
    margin \o Join(sep, StatementTokens(parts, style)) \o margin

CanonicalStatement(parts) == Statement(parts, "upper", " ", "")

StatementParts ==
    [columns : {<<"*">>, <<"id">>, <<"id,", "name">>, <<"name", "AS", "n">>},
     table   : {"users", "Events"},
     where   : {<<>>, <<"age", ">", "25">>, <<"name", "=", "'Bob'">>}]

InitParse ==
    /\ parsePc = "input"
    /\ parseParts \in StatementParts
    /\ \E style \in {"upper", "lower", "capital"},
          sep \in {" ", "  ", "\t", "\n"},
          margin \in {"", "  ", "\t", "\n"} :
          parseSql = Statement(parseParts, style, sep, margin)
    /\ parseResult = NoValue
    /\ IdleVInt /\ IdleMagic /\ IdleConv /\ IdleValidate /\ IdleQuery /\ IdleLater

ParseStatement ==
    /\ parsePc = "input"
    /\ parseResult' =
          [columns           |-> _extract_columns_from_query(parseSql),
           canonical_columns |-> _extract_columns_from_query(CanonicalStatement(parseParts)),
           select            |-> _parse_select_query(parseSql),
           canonical_select  |-> _parse_select_query(CanonicalStatement(parseParts))]
    /\ parsePc' = "done"
    /\ UNCHANGED <<parseParts, parseSql, notParseVars>>

NextParse == ParseStatement

SpecParse == InitParse /\ [][NextParse]_vars

\* C8: parsing is case-insensitive and whitespace-tolerant.  Two SELECT
\* statements that differ only in the letter case of keywords and in the
\* kind or amount of whitespace between tokens both parse and give the same
\* select-column list, table and WHERE clause.
ParsingCaseAndWhitespaceInsensitive ==
    parsePc = "done"
        => /\ parseResult.columns # <<>>
           /\ parseResult.columns = parseResult.canonical_columns
           /\ parseResult.select.t = "parsed"
           /\ parseResult.canonical_select.t = "parsed"
           /\ parseResult.select.columns = parseResult.canonical_select.columns
           /\ parseResult.select.table = parseResult.canonical_select.table
           /\ parseResult.select.where = parseResult.canonical_select.where

(***************************************************************************)
(* The query harness: a SELECT over the simulated table, with a column     *)
(* list and a conjunction of comparisons, run through query.               *)
(***************************************************************************)
ConditionText(condition) ==
    condition.column \o " " \o condition.operator \o " " \o condition.value

\* the statement text of a query input
QueryText(input) ==
    "SELECT " \o input.columns \o " FROM users"
    \o (IF input.where = <<>> THEN ""
        ELSE " WHERE " \o Join(" AND ", [i \in 1..Len(input.where) |->
                                            ConditionText(input.where[i])]))

Condition(column, operator, value) ==
    [column |-> column, operator |-> operator, value |-> value]

ColumnLists == {"*", "id", "email", "name, age", "age, name", "nosuch", "id, nosuch"}

WhereClauses ==
    {<<>>}
    \cup {<<Condition("age", operator, value)>> :
             operator \in {"=", "<", "<=", ">", ">="}, value \in {"25", "50"}}
    \cup {<<Condition("id", "=", "5")>>,
          <<Condition("name", "=", "user_3")>>,
          <<Condition("age", ">", "25"), Condition("id", "<", "10")>>,
          <<Condition("age", "=", "30"), Condition("id", "=", "10")>>}

QueryInputs == [columns : ColumnLists, where : WhereClauses]

InitQuery ==
    /\ queryPc = "input"
    /\ queryInput \in QueryInputs
    /\ querySql = QueryText(queryInput)
    /\ queryResult = NoValue
    /\ IdleVInt /\ IdleMagic /\ IdleConv /\ IdleValidate /\ IdleParse /\ IdleLater

RunQuery ==
    /\ queryPc = "input"
    /\ queryResult' = query(querySql)
    /\ queryPc' = "done"
    /\ UNCHANGED <<queryInput, querySql, notQueryVars>>

NextQuery == RunQuery

SpecQuery == InitQuery /\ [][NextQuery]_vars

\* the names of the columns requested, in the order requested
RequestedColumns(input) ==
    LET names == SplitOn(input.columns, ",")
    IN  [i \in 1..Len(names) |-> Strip(names[i])]

\* the column names of a returned row, in order
ColumnsOf(row) == [k \in 1..Len(row) |-> row[k][1]]

\* C9: projection.  A column list of * returns every column of the row; an
\* explicit list returns exactly the named columns in the requested order;
\* and the query fails with an error, before any row is returned, when a
\* named column does not exist: a missing column is never silently dropped.
ProjectionExact ==
    queryPc = "done"
        => LET requested == RequestedColumns(queryInput)
               schema    == ColumnsOf(SimulatedRow(0))
               exists(c) == \E k \in 1..Len(schema) : schema[k] = c
           IN  IF requested = <<"*">>
               THEN /\ queryResult.t = "rows"
                    /\ \A r \in 1..Len(queryResult.rows) :
                          ColumnsOf(queryResult.rows[r]) = schema
               ELSE IF \A i \in 1..Len(requested) : exists(requested[i])
               THEN /\ queryResult.t = "rows"
                    /\ \A r \in 1..Len(queryResult.rows) :
                          ColumnsOf(queryResult.rows[r]) = requested
               ELSE IsRaised(queryResult)

\* the comparison a condition states, on a row of the simulated table
Satisfies(row, condition) ==
    LET row_value == RowValue(row, condition.column)
    IN  IF row_value.t = "int"
        THEN LET value == IntOfStr(condition.value).v
             IN  CASE condition.operator = "="  -> row_value.v = value
                   [] condition.operator = "<"  -> row_value.v < value
                   [] condition.operator = "<=" -> row_value.v <= value
                   [] condition.operator = ">"  -> row_value.v > value
                   [] condition.operator = ">=" -> row_value.v >= value
        ELSE condition.operator = "=" /\ row_value.v = condition.value

\* the scanned rows that satisfy every condition, in scan order
SatisfyingRows(where) ==
    SelectSeq([k \in 1..NumRows |-> SimulatedRow(k - 1)],
              LAMBDA row : \A c \in 1..Len(where) : Satisfies(row, where[c]))

\* C10: filter evaluation.  For a query with a WHERE comparison (=, <, <=,
\* >, >=), alone or combined by AND, the rows returned are exactly the
\* scanned rows that satisfy it: none that fails is returned and none that
\* satisfies is omitted.
FilterExact ==
    (queryPc = "done" /\ queryInput.columns = "*" /\ queryInput.where # <<>>)
        => /\ queryResult.t = "rows"
           /\ queryResult.rows = SatisfyingRows(queryInput.where)

(***************************************************************************)
(* The query executor's pagination and its streaming iterator (cqlite.query *)
(* QueryExecutor.apply_limit_offset and QueryIterator).  The file is a      *)
(* sequence of rows, each matching the WHERE clause or not; reading the row *)
(* at fail_at raises a file error.                                          *)
(***************************************************************************)
ParsedQuery(select_columns, from_table, where_clause, limit, offset, order_by) ==
    [select_columns |-> select_columns, from_table |-> from_table,
     where_clause |-> where_clause, limit |-> limit, offset |-> offset,
     order_by |-> order_by]

\* QueryExecutor.apply_limit_offset
apply_limit_offset(parsed_query, limit, offset) ==
    [parsed_query EXCEPT !.limit = limit, !.offset = offset]

\* QueryIterator(sstable_path, parsed_query, chunk_size)
QueryIterator(chunk_size) ==
    [state          |-> "NotStarted",
     chunk_size     |-> chunk_size,
     current_offset |-> 0,       \* rows handed to the caller so far
     finished       |-> FALSE,
     position       |-> 0,       \* rows of the file read so far
     skipped        |-> 0,       \* matching rows skipped for OFFSET
     chunk          |-> <<>>,    \* the chunk being filled or ready to yield
     yielded        |-> <<>>,    \* every row handed to the caller, in order
     error          |-> PyNone]

\* LIMIT rows have been taken
LimitSatisfied(it, parsed_query) ==
    /\ parsed_query.limit # PyNone
    /\ it.current_offset + Len(it.chunk) >= parsed_query.limit.v

\* a matching row is still to be skipped for OFFSET
OffsetPendingOffByOne(it, parsed_query) ==
    /\ parsed_query.offset # PyNone
    /\ it.skipped <= parsed_query.offset.v

OffsetPending(it, parsed_query) ==
    /\ parsed_query.offset # PyNone
    /\ it.skipped < parsed_query.offset.v

ChunkReadyLate(it) == Len(it.chunk) > it.chunk_size

\* the chunk holds chunk_size rows
ChunkReady(it) == Len(it.chunk) >= it.chunk_size

EndOfFile(it, input) == it.position >= Len(input.rows)

FileRows(n, pattern) ==
    [i \in 1..n |-> [id |-> i,
                     matches |-> CASE pattern = "all"  -> TRUE
                                   [] pattern = "odd"  -> i % 2 = 1
                                   [] pattern = "none" -> FALSE]]

OptionalCounts == {PyNone, PyInt(0), PyInt(1), PyInt(3)}

BaseQuery == ParsedQuery(<<"*">>, "users", PyNone, PyNone, PyNone, PyNone)

IterInputs ==
    {[rows |-> FileRows(n, pattern), fail_at |-> fail_at, chunk_size |-> chunk_size,
      limit |-> limit, offset |-> offset] :
        n \in 0..MaxFileRows, pattern \in {"all", "odd", "none"},
        fail_at \in {0, 2}, chunk_size \in {1, MaxChunkSize},
        limit \in OptionalCounts, offset \in OptionalCounts}
    \cup {[rows |-> FileRows(20, "all"), fail_at |-> 0, chunk_size |-> MaxChunkSize,
           limit |-> PyInt(5), offset |-> PyInt(10)]}

InitIter ==
    /\ iterInput \in IterInputs
    /\ iterQuery = apply_limit_offset(BaseQuery, iterInput.limit, iterInput.offset)
    /\ iter = QueryIterator(iterInput.chunk_size)
    /\ IdleEarlier /\ IdleChunks /\ IdleReader /\ IdleBatch /\ IdlePath /\ IdleScan /\ IdleTypes /\ IdleCount /\ IdleColumns /\ IdlePatterns

\* the first next_chunk call starts the read
IterStart ==
    /\ iter # NoValue /\ iter.state = "NotStarted"
    /\ iter' = [iter EXCEPT !.state = "Reading"]
    /\ UNCHANGED <<iterInput, iterQuery, notIterVars>>

\* one row is read: dropped by the filter, skipped for OFFSET, or taken
IterReadRow ==
    /\ iter # NoValue /\ iter.state = "Reading"
    /\ ~LimitSatisfied(iter, iterQuery)
    /\ ~EndOfFile(iter, iterInput)
    /\ iterInput.fail_at # iter.position + 1
    /\ LET row  == iterInput.rows[iter.position + 1]
           read == [iter EXCEPT !.position = @ + 1]
       IN  iter' = IF ~row.matches THEN read
                   ELSE IF OffsetPending(iter, iterQuery)
                   THEN [read EXCEPT !.skipped = @ + 1]
                   ELSE LET taken == [read EXCEPT !.chunk = Append(@, row)]
                        IN  IF ChunkReady(taken)
                            THEN [taken EXCEPT !.state = "Chunked"]
                            ELSE taken
    /\ UNCHANGED <<iterInput, iterQuery, notIterVars>>

\* the file is exhausted or LIMIT is satisfied: a partial chunk is made
\* ready, otherwise the iterator finishes
IterEnd ==
    /\ iter # NoValue /\ iter.state = "Reading"
    /\ LimitSatisfied(iter, iterQuery) \/ EndOfFile(iter, iterInput)
    /\ iter' = IF iter.chunk # <<>>
               THEN [iter EXCEPT !.state = "Chunked"]
               ELSE [iter EXCEPT !.state = "Finished", !.finished = TRUE]
    /\ UNCHANGED <<iterInput, iterQuery, notIterVars>>

\* reading the next row raises: the error goes to the caller
IterFail ==
    /\ iter # NoValue /\ iter.state = "Reading"
    /\ ~LimitSatisfied(iter, iterQuery)
    /\ ~EndOfFile(iter, iterInput)
    /\ iterInput.fail_at = iter.position + 1
    /\ iter' = [iter EXCEPT !.state = "Finished", !.finished = TRUE,
                            !.chunk = <<>>, !.error = PyStr("SSTableError")]
    /\ UNCHANGED <<iterInput, iterQuery, notIterVars>>

\* next_chunk returns the ready chunk
IterYield ==
    /\ iter # NoValue /\ iter.state = "Chunked"
    /\ iter' = [iter EXCEPT !.state = "Reading",
                            !.yielded = @ \o iter.chunk,
                            !.current_offset = @ + Len(iter.chunk),
                            !.chunk = <<>>]
    /\ UNCHANGED <<iterInput, iterQuery, notIterVars>>

\* next_chunk on a finished iterator returns None
IterExhausted ==
    /\ iter # NoValue /\ iter.state = "Finished"
    /\ iter' = iter
    /\ UNCHANGED <<iterInput, iterQuery, notIterVars>>

NextIter ==
    \/ IterStart
    \/ IterReadRow
    \/ IterEnd
    \/ IterFail
    \/ IterYield
    \/ IterExhausted

\* the caller keeps asking for the next chunk
SpecIter == InitIter /\ [][NextIter]_vars /\ WF_vars(NextIter)

\* the rows of the file the WHERE clause keeps, in file order
MatchingRows(rows) == SelectSeq(rows, LAMBDA row : row.matches)

\* rows o + 1 .. min(o + l, n) of the matching rows
Page(matching, offset, limit) ==
    LET o == IF offset = PyNone THEN 0 ELSE offset.v
        l == IF limit = PyNone THEN Len(matching) ELSE limit.v
    IN  SubSeq(matching, o + 1, IF o + l < Len(matching) THEN o + l ELSE Len(matching))

IsPrefix(s, t) == Len(s) <= Len(t) /\ s = SubSeq(t, 1, Len(s))

\* C11: pagination.  With OFFSET o and LIMIT l over n matching rows the
\* result is exactly the matching rows o + 1 .. min(o + l, n) in iteration
\* order; offset and limit apply after filtering; the result never has more
\* than l rows; apply_limit_offset sets limit and offset and leaves the other
\* fields of the parsed query as they were.
PaginationExact ==
    iter # NoValue =>
        LET page == Page(MatchingRows(iterInput.rows), iterInput.offset, iterInput.limit)
        IN  /\ IsPrefix(iter.yielded \o iter.chunk, page)
            /\ (iter.state = "Finished" /\ iter.error = PyNone) => iter.yielded = page
            /\ iterInput.limit # PyNone => Len(iter.yielded) <= iterInput.limit.v
            /\ iterQuery.limit = iterInput.limit
            /\ iterQuery.offset = iterInput.offset
            /\ [iterQuery EXCEPT !.limit = PyNone, !.offset = PyNone] = BaseQuery

\* 20 matching rows, LIMIT 5 OFFSET 10: rows 11 to 15 have been yielded
PaginationExactWitness ==
    /\ iter # NoValue
    /\ Len(iterInput.rows) = 20
    /\ iter.state = "Finished"
    /\ [i \in 1..Len(iter.yielded) |-> iter.yielded[i].id] = <<11, 12, 13, 14, 15>>

IterTransitions ==
    {<<"NotStarted", "Reading">>, <<"Reading", "Chunked">>,
     <<"Chunked", "Reading">>, <<"Reading", "Finished">>}

\* C13: the iterator starts with current_offset = 0 and finished = false;
\* it moves only along NotStarted -> Reading -> (Chunked <-> Reading) ->
\* Finished; every chunk has at most chunk_size rows; Finished is terminal,
\* no row is yielded after it; a file error is propagated; and over a finite
\* file the iterator eventually reaches Finished.
IteratorStateMachine ==
    /\ [](iter # NoValue =>
            /\ iter.state = "NotStarted" => iter.current_offset = 0 /\ ~iter.finished
            /\ Len(iter.chunk) <= iter.chunk_size
            /\ iter.finished <=> iter.state = "Finished"
            /\ iter.state = "Finished" =>
                   \/ iter.error = PyNone /\ EndOfFile(iter, iterInput)
                   \/ iter.error = PyNone /\ LimitSatisfied(iter, iterQuery)
                   \/ iter.error # PyNone /\ iter.position + 1 = iterInput.fail_at)
    /\ [][iter # NoValue =>
            /\ iter'.state # iter.state => <<iter.state, iter'.state>> \in IterTransitions
            /\ iter.state = "Finished" =>
                   iter'.state = "Finished" /\ iter'.yielded = iter.yielded]_vars
    /\ <>(iter # NoValue => iter.state = "Finished")

\* an iterator that yielded more than one chunk and finished at end of file
IteratorStateMachineWitness ==
    /\ iter # NoValue
    /\ iter.state = "Finished"
    /\ iter.error = PyNone
    /\ Len(iter.yielded) > iter.chunk_size
    /\ iter.position = Len(iterInput.rows)

(***************************************************************************)
(* AsyncSSTableReader.query_streaming and query_chunks (async_support.py). *)
(* AsyncQueryIterator gives the rows of the result one by one; the rows    *)
(* are first streamed, then cut into chunks.                                *)
(***************************************************************************)
\* no fallback to the reader's chunk size: one row per chunk instead
EffectiveChunkSizeNoDefault(chunk_size, self_chunk_size) ==
    IF chunk_size = PyNone \/ chunk_size.v = 0 THEN 1 ELSE chunk_size.v

\* lines 77, 98: chunk_size or self.chunk_size
EffectiveChunkSize(chunk_size, self_chunk_size) ==
    IF chunk_size = PyNone \/ chunk_size.v = 0 THEN self_chunk_size ELSE chunk_size.v

FinalChunkDropped(chunk) == <<>>

\* lines 108-110: the final partial chunk, if any
FinalChunk(chunk) == IF chunk # <<>> THEN <<chunk>> ELSE <<>>

ChunksInputs ==
    [rows            : {[i \in 1..n |-> i] : n \in 0..MaxResultRows},
     chunk_size      : {PyNone} \cup {PyInt(k) : k \in 0..MaxChunkSize},
     self_chunk_size : {1, 2}]

InitChunks ==
    /\ chunksInput \in ChunksInputs
    /\ chunks = [pc |-> "streaming", position |-> 0, streamed |-> <<>>,
                 chunk |-> <<>>, yielded |-> <<>>]
    /\ IdleEarlier /\ IdleIter /\ IdleReader /\ IdleBatch /\ IdlePath /\ IdleScan /\ IdleTypes /\ IdleCount /\ IdleColumns /\ IdlePatterns

\* lines 80-81: query_streaming yields the next row
StreamRow ==
    /\ chunks # NoValue /\ chunks.pc = "streaming"
    /\ chunks.position < Len(chunksInput.rows)
    /\ chunks' = [chunks EXCEPT !.position = @ + 1,
                                !.streamed = Append(@, chunksInput.rows[chunks.position + 1])]
    /\ UNCHANGED <<chunksInput, notChunksVars>>

\* the stream is exhausted; query_chunks starts on a new iterator (lines 98-101)
StreamEnd ==
    /\ chunks # NoValue /\ chunks.pc = "streaming"
    /\ chunks.position >= Len(chunksInput.rows)
    /\ chunks' = [chunks EXCEPT !.pc = "chunking", !.position = 0, !.chunk = <<>>]
    /\ UNCHANGED <<chunksInput, notChunksVars>>

\* lines 102-106: the next row joins the chunk; a full chunk is yielded
ChunkRow ==
    /\ chunks # NoValue /\ chunks.pc = "chunking"
    /\ chunks.position < Len(chunksInput.rows)
    /\ LET chunk_size == EffectiveChunkSize(chunksInput.chunk_size,
                                            chunksInput.self_chunk_size)
           chunk      == Append(chunks.chunk, chunksInput.rows[chunks.position + 1])
       IN  chunks' = IF Len(chunk) >= chunk_size
                     THEN [chunks EXCEPT !.position = @ + 1, !.chunk = <<>>,
                                         !.yielded = Append(@, chunk)]
                     ELSE [chunks EXCEPT !.position = @ + 1, !.chunk = chunk]
    /\ UNCHANGED <<chunksInput, notChunksVars>>

\* lines 108-110: the iterator is exhausted
ChunkEnd ==
    /\ chunks # NoValue /\ chunks.pc = "chunking"
    /\ chunks.position >= Len(chunksInput.rows)
    /\ chunks' = [chunks EXCEPT !.pc = "done", !.chunk = <<>>,
                                !.yielded = @ \o FinalChunk(chunks.chunk)]
    /\ UNCHANGED <<chunksInput, notChunksVars>>

NextChunks ==
    \/ StreamRow
    \/ StreamEnd
    \/ ChunkRow
    \/ ChunkEnd

SpecChunks == InitChunks /\ [][NextChunks]_vars

RECURSIVE Concat(_)
Concat(seqs) == IF seqs = <<>> THEN <<>> ELSE Head(seqs) \o Concat(Tail(seqs))

\* C12: chunked and row-streaming equivalence.  For every chunk size and
\* every finite result, the chunks of query_chunks concatenated in yield
\* order are exactly the rows of the full query: none lost, duplicated or
\* reordered, the final partial chunk included.
ChunksEqualStream ==
    chunks # NoValue =>
        /\ chunks.pc = "chunking" =>
               Concat(chunks.yielded) \o chunks.chunk
                   = SubSeq(chunks.streamed, 1, chunks.position)
        /\ chunks.pc = "done" =>
               /\ Concat(chunks.yielded) = chunks.streamed
               /\ chunks.streamed = chunksInput.rows

\* a result whose last chunk is partial, after at least one full chunk
ChunksEqualStreamWitness ==
    /\ chunks # NoValue
    /\ chunks.pc = "done"
    /\ Len(chunks.yielded) >= 2
    /\ Len(chunks.yielded[Len(chunks.yielded)]) < Len(chunks.yielded[1])

\* C24: chunk sizes in query_chunks.  With chunk size k >= 1 every chunk
\* yielded except possibly the last has exactly k rows, the last has between
\* 1 and k rows, no empty chunk is yielded (an empty result yields no chunk),
\* and a chunk_size of None or 0 stands for the reader's chunk_size.
ChunkSizesExact ==
    (chunks # NoValue /\ chunks.pc \in {"chunking", "done"}) =>
        LET asked == chunksInput.chunk_size
            k     == IF asked \in {PyNone, PyInt(0)}
                     THEN chunksInput.self_chunk_size ELSE asked.v
            n     == Len(chunksInput.rows)
            count == Len(chunks.yielded)
        IN  /\ \A i \in 1..count :
                  /\ Len(chunks.yielded[i]) \in 1..k
                  /\ (i < count \/ chunks.pc = "chunking")
                        => Len(chunks.yielded[i]) = k
            /\ chunks.pc = "done" => count = (n + k - 1) \div k
            /\ n = 0 => count = 0

\* no chunk size was given: three rows came in a chunk of the reader's two
\* rows and a last chunk of one
ChunkSizesExactWitness ==
    /\ chunks # NoValue
    /\ chunks.pc = "done"
    /\ chunksInput.chunk_size = PyNone
    /\ chunksInput.self_chunk_size = 2
    /\ chunks.yielded = <<<<1, 2>>, <<3>>>>

(***************************************************************************)
(* SSTableReader.schema and SSTableReader.stats (reader.py): the cached    *)
(* properties of one reader.  get_schema and get_stats are the core's; what *)
(* they return may differ from one call to the next.                        *)
(***************************************************************************)
CacheNeverFilled(cache) == TRUE

\* lines 78, 85: self._schema_cache is None
CacheEmpty(cache) == cache = PyNone

\* the dictionaries get_schema / get_stats may return
CoreValues == {PyDict(<<<<"version", PyInt(1)>>>>), PyDict(<<<<"version", PyInt(2)>>>>)}

\* lines 60-63
InitReader ==
    /\ reader = [_schema_cache |-> PyNone, _stats_cache |-> PyNone,
                 get_schema_calls |-> 0, get_stats_calls |-> 0]
    /\ readerReads = <<>>
    /\ IdleEarlier /\ IdleIter /\ IdleChunks /\ IdleBatch /\ IdlePath /\ IdleScan /\ IdleTypes /\ IdleCount /\ IdleColumns /\ IdlePatterns

\* lines 75-80
ReadSchema ==
    /\ reader # NoValue /\ Len(readerReads) < MaxReads
    /\ \E returned \in CoreValues :
          LET filled == IF CacheEmpty(reader._schema_cache)
                        THEN [reader EXCEPT !._schema_cache = returned,
                                            !.get_schema_calls = @ + 1]
                        ELSE reader
          IN  /\ reader' = filled
              /\ readerReads' = Append(readerReads,
                     [property |-> "schema", value |-> filled._schema_cache])
    /\ UNCHANGED notReaderVars

\* lines 82-87
ReadStats ==
    /\ reader # NoValue /\ Len(readerReads) < MaxReads
    /\ \E returned \in CoreValues :
          LET filled == IF CacheEmpty(reader._stats_cache)
                        THEN [reader EXCEPT !._stats_cache = returned,
                                            !.get_stats_calls = @ + 1]
                        ELSE reader
          IN  /\ reader' = filled
              /\ readerReads' = Append(readerReads,
                     [property |-> "stats", value |-> filled._stats_cache])
    /\ UNCHANGED notReaderVars

NextReader ==
    \/ ReadSchema
    \/ ReadStats

SpecReader == InitReader /\ [][NextReader]_vars

\* the reads of one property, in order
ReadsOf(property) == SelectSeq(readerReads, LAMBDA read : read.property = property)

\* C14: memoized schema and stats.  Over any sequence of reads of
\* reader.schema and reader.stats on one reader, get_schema and get_stats
\* are each invoked at most once, and every read returns the value the first
\* read obtained.
CacheFilledOnce ==
    reader # NoValue =>
        /\ reader.get_schema_calls <= 1
        /\ reader.get_stats_calls <= 1
        /\ \A property \in {"schema", "stats"} :
              \A i \in 1..Len(ReadsOf(property)) :
                  ReadsOf(property)[i].value = ReadsOf(property)[1].value

\* both properties read more than once
CacheFilledOnceWitness ==
    /\ reader # NoValue
    /\ Len(ReadsOf("schema")) >= 2
    /\ Len(ReadsOf("stats")) >= 2
    /\ reader.get_schema_calls = 1
    /\ reader.get_stats_calls = 1

(***************************************************************************)
(* process_multiple_sstables with aggregate = False (async_support.py).    *)
(* A task is "created" by asyncio.create_task, "running" once the event    *)
(* loop has started its reader.query and the query awaits the executor,    *)
(* and "done" when the query has returned.  completed lists the tasks in   *)
(* the order their queries returned, exited the readers whose async-with   *)
(* block has been left, returned the list gather gave.                      *)
(***************************************************************************)
\* what reader.query(sql) returns on a path
QueryResult(path) == [rows_of |-> path]

\* the results in the order the queries completed
GatherAsCompleted(sstable_paths, completed) ==
    [k \in 1..Len(completed) |-> QueryResult(sstable_paths[completed[k]])]

\* line 319: asyncio.gather(*tasks) gives the results in the order of tasks
Gathered(sstable_paths, completed) ==
    [i \in 1..Len(sstable_paths) |-> QueryResult(sstable_paths[i])]

BatchInputs ==
    [sstable_paths : {[i \in 1..n |-> i] : n \in 1..MaxPaths},
     max_concurrent : 1..MaxPaths]

InitBatch ==
    /\ \E input \in BatchInputs :
          batch = [sstable_paths |-> input.sstable_paths,
                   max_concurrent |-> input.max_concurrent,
                   pc |-> "create", tasks |-> <<>>,
                   completed |-> <<>>, exited |-> {}, returned |-> <<>>]
    /\ IdleEarlier /\ IdleIter /\ IdleChunks /\ IdleReader /\ IdlePath /\ IdleScan /\ IdleTypes /\ IdleCount /\ IdleColumns /\ IdlePatterns

\* lines 314-317: one turn of the loop; entering and leaving the reader
\* (__aenter__ and __aexit__, lines 256-263) does not suspend, so no task
\* starts yet and the block is left as soon as the task is appended
CreateTask ==
    /\ batch # NoValue /\ batch.pc = "create"
    /\ Len(batch.tasks) < Len(batch.sstable_paths)
    /\ batch' = [batch EXCEPT !.tasks = Append(@, "created"),
                              !.exited = @ \cup {Len(batch.tasks) + 1}]
    /\ UNCHANGED notBatchVars

\* line 319: await asyncio.gather(*tasks)
Gather ==
    /\ batch # NoValue /\ batch.pc = "create"
    /\ Len(batch.tasks) = Len(batch.sstable_paths)
    /\ batch' = [batch EXCEPT !.pc = "gather"]
    /\ UNCHANGED notBatchVars

\* the event loop starts the created tasks in the order of their creation
StartTask ==
    /\ batch # NoValue /\ batch.pc = "gather"
    /\ \E i \in 1..Len(batch.tasks) :
          /\ batch.tasks[i] = "created"
          /\ \A j \in 1..(i - 1) : batch.tasks[j] # "created"
          /\ batch' = [batch EXCEPT !.tasks[i] = "running"]
    /\ UNCHANGED notBatchVars

\* a running query returns
CompleteTask ==
    /\ batch # NoValue /\ batch.pc = "gather"
    /\ \E i \in 1..Len(batch.tasks) :
          /\ batch.tasks[i] = "running"
          /\ batch' = [batch EXCEPT !.tasks[i] = "done",
                                    !.completed = Append(@, i)]
    /\ UNCHANGED notBatchVars

\* line 319: gather returns when every task is done
GatherDone ==
    /\ batch # NoValue /\ batch.pc = "gather"
    /\ \A i \in 1..Len(batch.tasks) : batch.tasks[i] = "done"
    /\ batch' = [batch EXCEPT !.pc = "done",
                              !.returned = Gathered(batch.sstable_paths,
                                                    batch.completed)]
    /\ UNCHANGED notBatchVars

NextBatch ==
    \/ CreateTask
    \/ Gather
    \/ StartTask
    \/ CompleteTask
    \/ GatherDone

SpecBatch == InitBatch /\ [][NextBatch]_vars

\* the queries in flight
InFlight == {i \in 1..Len(batch.tasks) : batch.tasks[i] = "running"}

\* C15: max-concurrency bound.  In a batch called with max_concurrent = m,
\* at no point are more than m queries in flight at the same time; work
\* beyond the bound waits until a running query completes.
MaxConcurrencyRespected ==
    batch # NoValue => Cardinality(InFlight) <= batch.max_concurrent

ReaderOutlivesQuery ==
    batch # NoValue =>
        \A i \in 1..Len(batch.tasks) :
            batch.tasks[i] \in {"created", "running"} => i \notin batch.exited

(***************************************************************************)
(* validate_sstable_path (utils.py, lines 366-431).  The file system is    *)
(* the kind and size of the path itself and the names present beside it.   *)
(***************************************************************************)
\* str.endswith(suffix)
EndsWith(s, suffix) ==
    Len(suffix) <= Len(s) /\ SubSeq(s, Len(s) - Len(suffix) + 1, Len(s)) = suffix

HasDataExtensionNoDash(name) == EndsWith(name, "Data.db")

\* line 391
HasDataExtension(name) == EndsWith(name, "-Data.db")

\* lines 394-402
SizeWarnings(size) ==
    IF size = 0 THEN <<"SSTable file is empty">>
    ELSE IF size < 1024 THEN <<"SSTable file is very small (< 1KB)">>
    ELSE <<>>

\* lines 408-414, in the order of the dictionary
CompanionTypes ==
    <<"Index.db", "Statistics.db", "CompressionInfo.db", "Filter.db", "Summary.db">>

\* line 405: path.name[:-8]
BaseName(name) == Slice(name, 0, IF Len(name) >= 8 THEN Len(name) - 8 ELSE 0)

MissingCompanionsInverted(name, siblings) ==
    SelectSeq(CompanionTypes,
              LAMBDA file_type : (BaseName(name) \o "-" \o file_type) \in siblings)

\* lines 416-420
MissingCompanions(name, siblings) ==
    SelectSeq(CompanionTypes,
              LAMBDA file_type : (BaseName(name) \o "-" \o file_type) \notin siblings)

\* lines 366-431
validate_sstable_path(input) ==
    IF input.kind = "missing"
    THEN [valid |-> FALSE,
          errors |-> <<"File does not exist: " \o input.name>>,
          warnings |-> <<>>]
    ELSE LET errors ==
                 (IF input.kind # "file"
                  THEN <<"Path is not a file: " \o input.name>> ELSE <<>>)
                 \o (IF ~HasDataExtension(input.name)
                     THEN <<"File does not have SSTable Data.db extension">> ELSE <<>>)
             missing_companions == MissingCompanions(input.name, input.siblings)
             warnings ==
                 SizeWarnings(input.size)
                 \o (IF missing_companions # <<>>
                     THEN <<"Missing companion files: " \o Join(", ", missing_companions)>>
                     ELSE <<>>)
         IN  [valid |-> Len(errors) = 0,
              errors |-> errors,
              warnings |-> warnings,
              file_size_bytes |-> input.size,
              missing_companions |-> missing_companions]

PathNames == {"users-1-Data.db", "notes.txt", "Data.db"}

PathInputs ==
    {[name |-> name, kind |-> "missing", size |-> 0, siblings |-> {}] : name \in PathNames}
    \cup {[name |-> name, kind |-> kind, size |-> size,
           siblings |-> {BaseName(name) \o "-" \o CompanionTypes[i] : i \in present}] :
             name \in PathNames, kind \in {"file", "dir"},
             size \in {0, 3, 4, 1023, 1024}, present \in SUBSET (1..Len(CompanionTypes))}

InitPath ==
    /\ pathInput \in PathInputs
    /\ pathResult = NoValue
    /\ IdleEarlier /\ IdleIter /\ IdleChunks /\ IdleReader /\ IdleBatch /\ IdleScan /\ IdleTypes /\ IdleCount /\ IdleColumns /\ IdlePatterns

ValidatePath ==
    /\ pathInput # NoValue /\ pathResult = NoValue
    /\ pathResult' = validate_sstable_path(pathInput)
    /\ UNCHANGED <<pathInput, notPathVars>>

NextPath == ValidatePath

SpecPath == InitPath /\ [][NextPath]_vars

\* an existing regular file with the Data.db name
IsDataFile(input) ==
    /\ input.kind = "file"
    /\ Len(input.name) >= 8
    /\ SubSeq(input.name, Len(input.name) - 7, Len(input.name)) = "-Data.db"

\* C16: a structurally truncated Data file is fatal.  Validating a Data.db
\* file too short to hold the 4-byte header, the empty file included, gives
\* an error outcome (valid = false), not a success with only a warning.
TruncatedDataFileFatal ==
    (pathResult # NoValue /\ IsDataFile(pathInput) /\ pathInput.size < 4)
        => /\ ~pathResult.valid
           /\ pathResult.errors # <<>>

\* the companions that are absent, in the order the code looks for them
AbsentCompanions(input) ==
    SelectSeq(CompanionTypes,
              LAMBDA file_type :
                  (SubSeq(input.name, 1, Len(input.name) - 8) \o "-" \o file_type)
                      \notin input.siblings)

\* C17 as stated: missing companion files are warnings, never failures.
\* For every existing regular file named *-Data.db and every set of absent
\* companions, the result is valid with no errors, missing_companions lists
\* exactly the absent companions, and a warning is present if and only if
\* at least one companion is absent.
CompanionsWarnOnlyAnyWarning ==
    (pathResult # NoValue /\ IsDataFile(pathInput))
        => /\ pathResult.valid
           /\ pathResult.errors = <<>>
           /\ pathResult.missing_companions = AbsentCompanions(pathInput)
           /\ pathResult.warnings # <<>> <=> AbsentCompanions(pathInput) # <<>>

\* C17 amended: the same, where the warning that is present if and only if
\* a companion is absent is the one naming the missing companion files; a
\* warning about the size of the file may be present besides.
CompanionsWarnOnly ==
    (pathResult # NoValue /\ IsDataFile(pathInput))
        => /\ pathResult.valid
           /\ pathResult.errors = <<>>
           /\ pathResult.missing_companions = AbsentCompanions(pathInput)
           /\ (\E i \in 1..Len(pathResult.warnings) :
                  StartsWith(pathResult.warnings[i], "Missing companion files: "))
                 <=> AbsentCompanions(pathInput) # <<>>

\* a Data file with some companions present and some absent
CompanionsWarnOnlyWitness ==
    /\ pathResult # NoValue
    /\ IsDataFile(pathInput)
    /\ pathInput.size >= 1024
    /\ Len(pathResult.missing_companions) = 2
    /\ Len(pathResult.warnings) = 1

\* C18: path errors are surfaced.  A path that does not exist, and an
\* existing file whose name does not end in -Data.db, each give valid =
\* false with a non-empty error list; valid = true is returned only when the
\* path exists, is a regular file and ends in -Data.db.
PathErrorsSurfaced ==
    pathResult # NoValue
        => /\ pathInput.kind = "missing"
                  => ~pathResult.valid /\ pathResult.errors # <<>>
           /\ (pathInput.kind = "file" /\ ~IsDataFile(pathInput))
                  => ~pathResult.valid /\ pathResult.errors # <<>>
           /\ pathResult.valid => IsDataFile(pathInput)

\* both kinds of path error have been reported
PathErrorsSurfacedWitness ==
    /\ pathResult # NoValue
    /\ pathInput.kind = "file"
    /\ pathInput.name = "Data.db"
    /\ ~pathResult.valid
    /\ Len(pathResult.errors) = 1

(***************************************************************************)
(* find_vint_patterns, test_file_compatibility and run_compatibility_tests *)
(* (validate_cassandra_compatibility.py).  The table directories are taken *)
(* as one sequence of files; a file has a name, may fail to open, and      *)
(* holds bytes.                                                             *)
(***************************************************************************)
\* lines 49-91: the loop from position on
RECURSIVE FindVIntFrom(_, _, _, _)
FindVIntFrom(data, position, vint_samples, max_samples) ==
    IF ~(position < Len(data) - 9 /\ Len(vint_samples) < max_samples)
    THEN vint_samples
    ELSE LET first_byte   == data[position + 1]
             total_length == ExtraBytes(first_byte) + 1
             vint_bytes   == SubSeq(data, position + 1, position + total_length)
             value        == decode_vint(vint_bytes)
         IN  IF first_byte = 0
             THEN FindVIntFrom(data, position + 1, vint_samples, max_samples)
             ELSE IF position + total_length <= Len(data)
             THEN FindVIntFrom(data, position + total_length,
                      Append(vint_samples,
                             [position  |-> position,
                              length    |-> total_length,
                              raw_bytes |-> vint_bytes,
                              outcome   |-> value,
                              valid     |-> value.kind = "value"]),
                      max_samples)
             ELSE FindVIntFrom(data, position + 1, vint_samples, max_samples)

\* line 44: max_samples: int = 10
DefaultMaxSamples == 10

\* lines 44-93
find_vint_patterns(data) == FindVIntFrom(data, 0, <<>>, DefaultMaxSamples)

\* lines 197, 228: file_path.name.split('-')[-1]
FileType(name) ==
    LET parts == SplitOn(name, "-") IN parts[Len(parts)]

\* lines 191-231; of analyze_data_structure the size and the type are kept
test_file_compatibility(file) ==
    IF ~file.readable
    THEN [file_path |-> file.name, file_type |-> FileType(file.name),
          success |-> FALSE, error |-> "OSError"]
    ELSE LET file_type     == FileType(file.name)
             vint_patterns == find_vint_patterns(file.data)
         IN  [file_path |-> file.name,
              file_type |-> file_type,
              success   |-> TRUE,
              size_bytes |-> Len(file.data),
              magic_analysis |-> IF file_type = "Data.db"
                                 THEN analyze_magic_number(file.data) ELSE NoValue,
              vint_analysis |->
                  [samples_found |-> Len(vint_patterns),
                   valid_samples |-> Len(SelectSeq(vint_patterns,
                                                   LAMBDA v : v.valid)),
                   samples       |-> SubSeq(vint_patterns, 1,
                                        IF Len(vint_patterns) < 5
                                        THEN Len(vint_patterns) ELSE 5)],
              structure_analysis |-> [file_size |-> Len(file.data),
                                      file_type |-> file_type]]

UpdateSummaryFailuresLost(summary, file_result) ==
    IF file_result.success
    THEN [summary EXCEPT !.total_files = @ + 1, !.successful_tests = @ + 1]
    ELSE [summary EXCEPT !.total_files = @ + 1]

\* lines 272-286
UpdateSummary(summary, file_result) ==
    LET counted == [summary EXCEPT !.total_files = @ + 1]
    IN  IF file_result.success
        THEN [counted EXCEPT
                !.successful_tests = @ + 1,
                !.magic_numbers_valid =
                    IF file_result.magic_analysis # NoValue
                       /\ "format_recognized" \in DOMAIN file_result.magic_analysis
                       /\ file_result.magic_analysis.format_recognized
                    THEN @ + 1 ELSE @,
                !.vint_samples_valid = @ + file_result.vint_analysis.valid_samples,
                !.total_vint_samples = @ + file_result.vint_analysis.samples_found]
        ELSE [counted EXCEPT !.failed_tests = @ + 1]

\* line 268: the files the run looks at
IsCriticalFile(name) == Contains(name, "Data.db") \/ Contains(name, "Statistics.db")

DataSamples ==
    {<<>>,
     <<111, 97, 0, 1>>,
     <<111, 97, 0, 1, 0, 0, 0, 0, 0, 0, 0, 0>>,
     <<129, 35, 5, 0, 0, 0, 0, 0, 0, 0, 0, 0>>,
     <<0, 255, 1, 2, 3, 4, 5, 6, 7, 8, 5, 0, 0, 0, 0, 0, 0, 0, 0, 0>>,
     [i \in 1..22 |-> 5]}

ScanFiles ==
    {[name |-> name, readable |-> FALSE, data |-> <<>>] :
        name \in {"nb-1-big-Data.db", "nb-1-big-Statistics.db", "nb-1-big-Index.db"}}
    \cup {[name |-> name, readable |-> TRUE, data |-> data] :
            name \in {"nb-1-big-Data.db", "nb-1-big-Statistics.db", "nb-1-big-Index.db"},
            data \in DataSamples}

\* lines 243-255
InitScan ==
    /\ scanInput \in [exists : BOOLEAN, files : SeqsUpTo(ScanFiles, MaxFiles)]
    /\ scanInput.exists \/ scanInput.files = <<>>
    /\ scan = [pc |-> "start", index |-> 0, success |-> TRUE, files |-> <<>>,
               summary |-> [total_files |-> 0, successful_tests |-> 0,
                            failed_tests |-> 0, magic_numbers_valid |-> 0,
                            vint_samples_valid |-> 0, total_vint_samples |-> 0]]
    /\ IdleEarlier /\ IdleIter /\ IdleChunks /\ IdleReader /\ IdleBatch /\ IdlePath /\ IdleTypes /\ IdleCount /\ IdleColumns /\ IdlePatterns

\* lines 237-241: the test data path does not exist
ScanNoPath ==
    /\ scan # NoValue /\ scan.pc = "start"
    /\ ~scanInput.exists
    /\ scan' = [scan EXCEPT !.pc = "done", !.success = FALSE]
    /\ UNCHANGED <<scanInput, notScanVars>>

\* lines 267-286: the next file of the directory
ScanFile ==
    /\ scan # NoValue /\ scan.pc \in {"start", "files"}
    /\ scanInput.exists
    /\ scan.index < Len(scanInput.files)
    /\ LET file == scanInput.files[scan.index + 1]
       IN  scan' = IF IsCriticalFile(file.name)
                   THEN LET file_result == test_file_compatibility(file)
                        IN  [scan EXCEPT !.pc = "files", !.index = @ + 1,
                                         !.files = Append(@, file_result),
                                         !.summary = UpdateSummary(@, file_result)]
                   ELSE [scan EXCEPT !.pc = "files", !.index = @ + 1]
    /\ UNCHANGED <<scanInput, notScanVars>>

\* line 291
ScanReturn ==
    /\ scan # NoValue /\ scan.pc \in {"start", "files"}
    /\ scanInput.exists
    /\ scan.index >= Len(scanInput.files)
    /\ scan' = [scan EXCEPT !.pc = "done"]
    /\ UNCHANGED <<scanInput, notScanVars>>

NextScan ==
    \/ ScanNoPath
    \/ ScanFile
    \/ ScanReturn

SpecScan == InitScan /\ [][NextScan]_vars

\* the samples follow one another with nothing but zero bytes skipped, up
\* to the last position scanned or the sample limit
SamplesCoverData(data, samples) ==
    LET scanned == IF Len(data) - 9 > 0 THEN Len(data) - 9 ELSE 0
        start(k) == IF k = 0 THEN 0 ELSE samples[k].position + samples[k].length
        stop(k)  == IF k = Len(samples) THEN scanned ELSE samples[k + 1].position
    IN  /\ \A k \in 1..Len(samples) :
              /\ samples[k].position < scanned
              /\ data[samples[k].position + 1] # 0
              /\ samples[k].valid <=> samples[k].outcome.kind = "value"
        /\ \A k \in 0..Len(samples) :
              (k < Len(samples) \/ Len(samples) < 10) =>
                  \A at \in start(k)..(stop(k) - 1) : data[at + 1] = 0

\* C19: a malformed record does not abort the scan.  A sample that fails to
\* decode is recorded as not valid and a file that fails to read is counted
\* in failed_tests; every later position and every later file is still
\* processed; and after run_compatibility_tests successful_tests +
\* failed_tests = total_files and vint_samples_valid <= total_vint_samples.
ScanGoesOn ==
    (scan # NoValue /\ scanInput.exists) =>
        LET critical == SelectSeq(scanInput.files, LAMBDA file : IsCriticalFile(file.name))
            summary  == scan.summary
        IN  /\ summary.successful_tests + summary.failed_tests = summary.total_files
            /\ summary.vint_samples_valid <= summary.total_vint_samples
            /\ scan.pc = "done" =>
                  /\ summary.total_files = Len(critical)
                  /\ Len(scan.files) = Len(critical)
                  /\ summary.failed_tests
                        = Len(SelectSeq(critical, LAMBDA file : ~file.readable))
                  /\ \A k \in 1..Len(critical) :
                        /\ scan.files[k].file_path = critical[k].name
                        /\ scan.files[k].success = critical[k].readable
                        /\ critical[k].readable =>
                              /\ SamplesCoverData(critical[k].data,
                                                  find_vint_patterns(critical[k].data))
                              /\ scan.files[k].vint_analysis.samples_found
                                    = Len(find_vint_patterns(critical[k].data))

\* a file that could not be read, then a file scanned to its end
ScanGoesOnWitness ==
    /\ scan # NoValue
    /\ scan.pc = "done"
    /\ Len(scan.files) = 2
    /\ ~scan.files[1].success
    /\ scan.files[2].success
    /\ scan.files[2].vint_analysis.samples_found >= 2
    /\ scan.summary.failed_tests = 1

(***************************************************************************)
(* The parameters of a parameterized type (types.py, lines 291-349).       *)
(***************************************************************************)
\* most parameters written between the brackets of a type
MaxParams == 3

ParamTypes ==
    {"text", "int", "list<int>", "map<text,int>", "map<text, int>",
     "tuple<int,text>"}

ParamSeparators == {",", ", ", " , "}

\* list, set, map and tuple types of one to MaxParams parameters
TypeInputs ==
    {base \o "<" \o Join(sep, params) \o ">" :
        base \in {"list", "set", "map", "tuple"},
        sep \in ParamSeparators,
        params \in SeqsUpTo(ParamTypes, MaxParams) \ {<<>>}}

InitTypes ==
    /\ typeInput \in TypeInputs
    /\ typeResult = NoValue
    /\ IdleEarlier /\ IdleIter /\ IdleChunks /\ IdleReader /\ IdleBatch /\ IdlePath /\ IdleScan /\ IdleCount /\ IdleColumns /\ IdlePatterns

ExtractTypes ==
    /\ typeInput # ""
    /\ typeResult = NoValue
    /\ typeResult' =
          [params  |-> _split_type_params(Strip(InnerType(typeInput))),
           element |-> _extract_element_type(typeInput),
           map     |-> _extract_map_types(typeInput),
           tuple   |-> _extract_tuple_types(typeInput)]
    /\ UNCHANGED <<typeInput, notTypesVars>>

NextTypes == ExtractTypes

SpecTypes == InitTypes /\ [][NextTypes]_vars

\* the number of times the character c is among the first n of s
CountIn(s, c, n) == Cardinality({i \in 1..n : CharAt(s, i) = c})

\* the positions of the commas of s that are inside no angle brackets
TopLevelCommas(s) ==
    {i \in 1..Len(s) : /\ CharAt(s, i) = ","
                       /\ CountIn(s, "<", i - 1) = CountIn(s, ">", i - 1)}

\* s without its blanks
Unspaced(s) ==
    LET kept == {i \in 1..Len(s) : CharAt(s, i) # " "}
        RECURSIVE Take(_)
        Take(i) == IF i > Len(s) THEN ""
                   ELSE (IF i \in kept THEN CharAt(s, i) ELSE "") \o Take(i + 1)
    IN  Take(1)

\* C21: nested type parameters are split by bracket depth.  The parameter
\* list is cut exactly at the commas at angle-bracket depth 0:
\* map<text,map<text,int>> has key text and value map<text,int>,
\* tuple<text,list<int>,map<text,int>> has three parameters, list<list<int>>
\* has element type list<int>; the parts joined by commas give the
\* parameter string back up to surrounding whitespace.
SplitByDepth ==
    (typeInput # "" /\ typeResult # NoValue) =>
        LET inner  == Strip(InnerType(typeInput))
            commas == TopLevelCommas(inner)
            cut(k) == IF k = 0 THEN 0
                      ELSE IF k > Cardinality(commas) THEN Len(inner) + 1
                      ELSE CHOOSE i \in commas :
                              Cardinality({j \in commas : j <= i}) = k
            parts  == typeResult.params
        IN  /\ Len(parts) = Cardinality(commas) + 1
            /\ \A k \in 1..Len(parts) :
                  parts[k] = Strip(SubSeq(inner, cut(k - 1) + 1, cut(k) - 1))
            /\ Unspaced(Join(",", parts)) = Unspaced(inner)
            /\ typeResult.element = inner
            /\ typeResult.tuple = parts
            /\ Len(parts) >= 2 => typeResult.map = <<parts[1], parts[2]>>
            /\ typeInput = "map<text,map<text,int>>"
                  => typeResult.map = <<"text", "map<text,int>">>
            /\ typeInput = "tuple<text,list<int>,map<text,int>>"
                  => typeResult.tuple = <<"text", "list<int>", "map<text,int>">>
            /\ typeInput = "list<list<int>>" => typeResult.element = "list<int>"

\* a map whose value type is itself a map was split into key and value
SplitByDepthWitness ==
    /\ typeInput = "map<text,map<text,int>>"
    /\ typeResult # NoValue
    /\ typeResult.params = <<"text", "map<text,int>">>
    /\ typeResult.map = <<"text", "map<text,int>">>

(***************************************************************************)
(* SSTableReader.query_count (reader.py, lines 102-124) and                *)
(* AsyncSSTableReader.count (async_support.py, lines 133-154).  query is   *)
(* the core's: it is taken from the query surface and the pagination rule  *)
(* of the executor (SELECT <cols|*> FROM <table> [WHERE ..] [LIMIT n];     *)
(* LIMIT stops the stream after n rows are yielded), with a COUNT          *)
(* statement yielding one row that holds the number of rows matched.       *)
(***************************************************************************)
\* most rows in the table counted
MaxTableRows == 4

\* the position of the first token that is word in upper case, or 0
TokenAt(tokens, word) ==
    LET at == {i \in 1..Len(tokens) : Upper(tokens[i]) = word}
    IN  IF at = {} THEN 0 ELSE CHOOSE i \in at : \A j \in at : i <= j

\* the statement as the core reads it: keywords in any case, any whitespace
CoreStatement(sql) ==
    LET tokens   == Split(sql)
        where_at == TokenAt(tokens, "WHERE")
        limit_at == TokenAt(tokens, "LIMIT")
    IN  [count     |-> Upper(tokens[2]) = "COUNT(*)",
         \* WHERE id > k
         where_min |-> IF where_at = 0 THEN 0 ELSE IntOfStr(tokens[where_at + 3]).v,
         limit     |-> IF limit_at = 0 THEN PyNone ELSE IntOfStr(tokens[limit_at + 1])]

\* the first rows of a result, up to the limit if there is one
Limited(rows, limit) ==
    IF limit = PyNone \/ limit.v >= Len(rows) THEN rows ELSE SubSeq(rows, 1, limit.v)

\* query(sql, limit): the rows of a table with ids 1..table_rows
CoreQuery(table_rows, sql, limit) ==
    LET statement == CoreStatement(sql)
        matched   == SelectSeq([i \in 1..table_rows |-> [id |-> i]],
                               LAMBDA row : row.id > statement.where_min)
        yielded   == IF statement.count THEN <<[count |-> Len(matched)]>> ELSE matched
    IN  Limited(Limited(yielded, statement.limit), limit)

\* reader.py lines 89-100
query_one(table_rows, sql) ==
    LET results == CoreQuery(table_rows, sql, PyInt(1))
    IN  IF results # <<>> THEN results[1] ELSE PyNone

\* reader.py lines 102-124
query_count(table_rows, sql) ==
    LET parts     == SplitOnce(sql, " FROM ")
        rewritten == StartsWith(Upper(Strip(sql)), "SELECT") /\ Len(parts) = 2
        result    == IF rewritten
                     THEN query_one(table_rows, "SELECT COUNT(*) FROM " \o parts[2])
                     ELSE PyNone
    IN  IF rewritten /\ result # PyNone /\ "count" \in DOMAIN result
        THEN result.count
        ELSE Len(CoreQuery(table_rows, sql, PyNone))

\* async_support.py lines 133-154
count(table_rows, sql) ==
    LET parts     == SplitOnce(sql, " FROM ")
        rewritten == StartsWith(Upper(Strip(sql)), "SELECT") /\ Len(parts) = 2
        results   == IF rewritten
                     THEN CoreQuery(table_rows, "SELECT COUNT(*) FROM " \o parts[2], PyNone)
                     ELSE <<>>
    IN  IF rewritten /\ results # <<>> /\ "count" \in DOMAIN results[1]
        THEN results[1].count
        ELSE Len(CoreQuery(table_rows, sql, PyNone))

CountStatements ==
    {select \o " *" \o from \o "users" \o where \o limit :
        select \in {"SELECT", "select", "  Select"},
        from \in {" FROM ", " from ", "  FROM  "},
        where \in {"", " WHERE id > 2"},
        limit \in {"", " LIMIT 0", " LIMIT 2"}}

InitCount ==
    /\ countInput \in [table_rows : 0..MaxTableRows, sql : CountStatements]
    /\ countResult = NoValue
    /\ IdleEarlier /\ IdleIter /\ IdleChunks /\ IdleReader /\ IdleBatch /\ IdlePath /\ IdleScan /\ IdleTypes /\ IdleColumns /\ IdlePatterns

\* query(sql) and query_count(sql) on the same table
QueryCount ==
    /\ countInput # NoValue /\ countResult = NoValue
    /\ countResult' =
          [method |-> "query_count",
           rows   |-> CoreQuery(countInput.table_rows, countInput.sql, PyNone),
           count  |-> query_count(countInput.table_rows, countInput.sql)]
    /\ UNCHANGED <<countInput, notCountVars>>

\* query(sql) and AsyncSSTableReader.count(sql) on the same table
AsyncCount ==
    /\ countInput # NoValue /\ countResult = NoValue
    /\ countResult' =
          [method |-> "count",
           rows   |-> CoreQuery(countInput.table_rows, countInput.sql, PyNone),
           count  |-> count(countInput.table_rows, countInput.sql)]
    /\ UNCHANGED <<countInput, notCountVars>>

NextCount ==
    \/ QueryCount
    \/ AsyncCount

SpecCount == InitCount /\ [][NextCount]_vars

Truthy(value) == BoolOf(value).v

\* reader.py lines 361-375 and 163-174; table_name is the core's
_build_column_query(columns, where, limit, table_name) ==
    LET column_list == Join(", ", IF columns = <<>> THEN <<"*">> ELSE columns)
        select      == "SELECT " \o column_list \o " FROM " \o table_name
        filtered    == IF Truthy(where) THEN select \o " WHERE " \o where.v ELSE select
    IN  IF Truthy(limit)
        THEN filtered \o " LIMIT " \o IntToStr(limit.v)
        ELSE filtered

ColumnsInputs ==
    [columns    : {<<>>, <<"*">>, <<"name">>, <<"name", "email">>},
     where      : {PyNone, PyStr(""), PyStr("id > 2")},
     limit      : {PyNone, PyInt(0), PyInt(1), PyInt(3)},
     table_rows : 0..MaxTableRows]

InitColumns ==
    /\ columnsInput \in ColumnsInputs
    /\ columnsResult = NoValue
    /\ IdleEarlier /\ IdleIter /\ IdleChunks /\ IdleReader /\ IdleBatch /\ IdlePath /\ IdleScan /\ IdleTypes /\ IdleCount /\ IdlePatterns

\* query_columns_df, line 191: the statement alone
BuildColumnQuery ==
    /\ columnsInput # NoValue /\ columnsResult = NoValue
    /\ columnsResult' =
          [sql  |-> _build_column_query(columnsInput.columns, columnsInput.where,
                                        columnsInput.limit, "users"),
           queried |-> FALSE,
           rows |-> <<>>]
    /\ UNCHANGED <<columnsInput, notColumnsVars>>

\* query_columns, lines 163-176: the statement is handed to query
QueryColumns ==
    /\ columnsInput # NoValue
    /\ IF columnsResult = NoValue THEN TRUE ELSE ~columnsResult.queried
    /\ LET sql == _build_column_query(columnsInput.columns, columnsInput.where,
                                      columnsInput.limit, "users")
       IN  columnsResult' =
              [sql  |-> sql,
               queried |-> TRUE,
               rows |-> CoreQuery(columnsInput.table_rows, sql, PyNone)]
    /\ UNCHANGED <<columnsInput, notColumnsVars>>

NextColumns ==
    \/ BuildColumnQuery
    \/ QueryColumns

SpecColumns == InitColumns /\ [][NextColumns]_vars

\* C26: query_columns and _build_column_query honour the limit argument.
\* For every limit n >= 0 passed, limit = 0 included, the statement built
\* ends with LIMIT n and the result has at most n rows; the LIMIT clause is
\* left out only when no limit is passed.
LimitHonoured ==
    columnsResult # NoValue =>
        LET limit == columnsInput.limit
        IN  /\ limit # PyNone =>
                  /\ EndsWith(columnsResult.sql, " LIMIT " \o IntToStr(limit.v))
                  /\ columnsResult.queried
                        => Len(columnsResult.rows) <= limit.v
            /\ limit = PyNone => ~Contains(columnsResult.sql, "LIMIT")

(***************************************************************************)
(* The loop of find_vint_patterns, one iteration at a time                 *)
(* (validate_cassandra_compatibility.py, lines 44-93).                     *)
(***************************************************************************)
\* longest run of bytes before the nine bytes that end the data
MaxPrefixLen == 4

\* the next scan starts inside the sample just taken
AfterSampleOverlapping(position, total_length) == position + 1

\* line 85: position += total_length
AfterSample(position, total_length) == position + total_length

\* lines 49-50: the loop condition
ScanContinues(data, position, vint_samples, max_samples) ==
    position < Len(data) - 9 /\ Len(vint_samples) < max_samples

\* lines 51-91: one iteration, giving the new position and samples
FindVIntIteration(data, position, vint_samples) ==
    LET first_byte   == data[position + 1]
        total_length == ExtraBytes(first_byte) + 1
        vint_bytes   == SubSeq(data, position + 1, position + total_length)
        value        == decode_vint(vint_bytes)
    IN  IF first_byte = 0
        THEN [position |-> position + 1, vint_samples |-> vint_samples]
        ELSE IF position + total_length <= Len(data)
        THEN [position     |-> AfterSample(position, total_length),
              vint_samples |-> Append(vint_samples,
                                  [position  |-> position,
                                   length    |-> total_length,
                                   raw_bytes |-> vint_bytes,
                                   outcome   |-> value,
                                   valid     |-> value.kind = "value"])]
        ELSE [position |-> position + 1, vint_samples |-> vint_samples]

\* byte strings of a prefix and nine more bytes: the prefix is what the loop
\* looks at
PatternsInputs ==
    [data        : {prefix \o [i \in 1..9 |-> 7] :
                       prefix \in SeqsUpTo({0, 5, 129, 255}, MaxPrefixLen)}
                   \cup {<<>>, <<5, 5, 5>>},
     max_samples : {1, 2, DefaultMaxSamples}]

\* lines 46-47
InitPatterns ==
    /\ patternsInput \in PatternsInputs
    /\ patterns = [pc |-> "loop", position |-> 0, vint_samples |-> <<>>,
                   iterations |-> 0]
    /\ IdleEarlier /\ IdleIter /\ IdleChunks /\ IdleReader /\ IdleBatch /\ IdlePath /\ IdleScan /\ IdleTypes /\ IdleCount /\ IdleColumns

PatternsIteration ==
    /\ patterns # NoValue /\ patterns.pc = "loop"
    /\ ScanContinues(patternsInput.data, patterns.position,
                     patterns.vint_samples, patternsInput.max_samples)
    /\ LET after == FindVIntIteration(patternsInput.data, patterns.position,
                                      patterns.vint_samples)
       IN  patterns' = [patterns EXCEPT !.position = after.position,
                                        !.vint_samples = after.vint_samples,
                                        !.iterations = @ + 1]
    /\ UNCHANGED <<patternsInput, notPatternsVars>>

\* line 93
PatternsReturn ==
    /\ patterns # NoValue /\ patterns.pc = "loop"
    /\ ~ScanContinues(patternsInput.data, patterns.position,
                      patterns.vint_samples, patternsInput.max_samples)
    /\ patterns' = [patterns EXCEPT !.pc = "returned"]
    /\ UNCHANGED <<patternsInput, notPatternsVars>>

NextPatterns ==
    \/ PatternsIteration
    \/ PatternsReturn

SpecPatterns == InitPatterns /\ [][NextPatterns]_vars

\* C30: find_vint_patterns terminates on every byte string.  The scan
\* position strictly increases on every loop iteration (so the loop runs at
\* most len(data) - 9 times and then returns), the function returns at most
\* max_samples samples, and the byte ranges [position, position + length)
\* of the samples are pairwise disjoint and in increasing order.
FindVIntTerminates ==
    /\ [][PatternsIteration => patterns'.position > patterns.position]_vars
    /\ [](patterns # NoValue =>
            LET samples == patterns.vint_samples
            IN  /\ patterns.iterations <= patterns.position
                /\ patterns.position <= Len(patternsInput.data)
                /\ Len(samples) <= patternsInput.max_samples
                /\ \A k \in 1..(Len(samples) - 1) :
                      samples[k].position + samples[k].length
                          <= samples[k + 1].position
                /\ \A k \in 1..Len(samples) :
                      /\ samples[k].length >= 1
                      /\ samples[k].position + samples[k].length
                            <= Len(patternsInput.data))

\* two samples, the first of two bytes, were returned
FindVIntTerminatesWitness ==
    /\ patterns # NoValue
    /\ patterns.pc = "returned"
    /\ Len(patterns.vint_samples) = 2
    /\ patterns.vint_samples[1].length = 2
    /\ patterns.vint_samples[2].position = 2

====
